---- MODULE Spec2Model ----
(***************************************************************************)
(* Model of the IFPA health dashboard core: the composite health score     *)
(* (src/lib/health-score.ts), the seasonal-ratio forecast                  *)
(* (src/unnamed/part_001), the calibration route                           *)
(* (src/app/api/admin/observations/route.ts) and the scheduled jobs        *)
(* runHealthScorer (src/unnamed/part_001) and runForecaster                *)
(* (src/unnamed/part_000) writing to the store.                            *)
(*                                                                         *)
(* Numbers.  The program computes with IEEE doubles.  The model computes   *)
(* with exact rationals <<n, d>> (d > 0, lowest terms) plus the one        *)
(* non-number the code can produce from finite inputs, NaN == <<0, 0>>     *)
(* (0/0, or arithmetic on undefined).  Rounding error of the doubles and   *)
(* overflow to Infinity are outside the model.                             *)
(***************************************************************************)
EXTENDS Integers, Sequences, FiniteSets, Bags, TLC

VARIABLES
    \* ---- computeHealthScore call -------------------------------------
    hsPc,            \* "call" before the call, "done" after it returned
    hsInput,         \* HealthScoreInput
    hsWeights,       \* customWeights argument (a function key -> number)
    hsBreakpoints,   \* customBreakpoints argument (key -> breakpoints)
    hsResult,        \* HealthScoreResult
    \* ---- interpolate calls -------------------------------------------
    ipBp,            \* breakpoints argument
    ipCalls,         \* sequence of <<value, returned score>>, latest last
    \* ---- forecast engine ---------------------------------------------
    fcPc,            \* "data", "weights" (monthlyWeights known), "done"
    fcAnnual,        \* annualData: AnnualData[]
    fcMonthly,       \* monthlyData: MonthlyData[]
    fcWeights,       \* monthlyWeights handed to computeForecast
    fcArgs,          \* ytdTournaments, ytdEntries, completedMonths, targetYear
    forecast,        \* ForecastResult
    \* ---- computeTrendLine call ---------------------------------------
    tlPc,            \* "call" / "done"
    tlData,          \* annualData argument
    tlArgs,          \* metric, targetYear
    tlResult,        \* TrendReference
    \* ---- observations and calibration routes -------------------------
    observations,    \* table observations, rows in insertion order
    versions,        \* table methodology_versions: version_number -> row
    shadowScores,    \* table shadow_scores: <<score_date, version>> -> composite_score
    calResponse,     \* the response to the latest request
    \* ---- scheduled jobs and the store --------------------------------
    today,           \* the current date, a day number
    snapshots,       \* the collected tables the jobs read
    jobs,            \* per process: position and locals of the running job
    healthScores,    \* table health_scores, a bag of rows
    shadowTable,     \* table shadow_scores, a bag of rows
    forecasts,       \* table forecasts, a bag of rows
    \* ---- cron routes --------------------------------------------------
    CRON_SECRET,     \* process.env.CRON_SECRET: <<>> when not set, else <<secret>>
    collection_runs, \* table collection_runs, rows in insertion order (id = index)
    handlers         \* per cron route: position and locals of its GET handler

hsVars == <<hsPc, hsInput, hsWeights, hsBreakpoints, hsResult>>
ipVars == <<ipBp, ipCalls>>
fcVars == <<fcPc, fcAnnual, fcMonthly, fcWeights, fcArgs, forecast>>
tlVars == <<tlPc, tlData, tlArgs, tlResult>>
calVars == <<observations, versions, shadowScores, calResponse>>
jobVars == <<today, snapshots, jobs, healthScores, shadowTable, forecasts>>
cronVars == <<CRON_SECRET, collection_runs, handlers>>
vars == <<hsVars, ipVars, fcVars, tlVars, calVars, jobVars, cronVars>>

----------------------------------------------------------------------------
(* Exact rational arithmetic with NaN.                                     *)

Abs(x) == IF x < 0 THEN -x ELSE x

RECURSIVE GCD(_, _)
GCD(a, b) == IF b = 0 THEN a ELSE GCD(b, a % b)

NaN == <<0, 0>>
IsNaN(a) == a[2] = 0

\* n/d in lowest terms with a positive denominator.  Division by zero gives
\* NaN: the only division by zero the code can perform is 0/0 (interpolate
\* on a repeated input); every other divisor is guarded.
Norm(n, d) ==
    IF d = 0 THEN NaN
    ELSE LET s == IF d < 0 THEN -1 ELSE 1
             g == GCD(Abs(n), Abs(d))
         IN  <<(s * n) \div g, (s * d) \div g>>

R(n) == <<n, 1>>
Frac(n, d) == Norm(n, d)

\* The operations reduce by common factors before multiplying, to keep the
\* intermediate integers small.
RAdd(a, b) == IF IsNaN(a) \/ IsNaN(b) THEN NaN
              ELSE LET g == GCD(a[2], b[2])
                   IN  Norm(a[1] * (b[2] \div g) + b[1] * (a[2] \div g), (a[2] \div g) * b[2])
RNeg(a) == <<-a[1], a[2]>>
RSub(a, b) == IF IsNaN(a) \/ IsNaN(b) THEN NaN ELSE RAdd(a, RNeg(b))
RMul(a, b) == IF IsNaN(a) \/ IsNaN(b) THEN NaN
              ELSE LET g1 == GCD(Abs(a[1]), b[2])
                       g2 == GCD(Abs(b[1]), a[2])
                   IN  Norm((a[1] \div g1) * (b[1] \div g2), (a[2] \div g2) * (b[2] \div g1))
RDiv(a, b) == IF IsNaN(a) \/ IsNaN(b) \/ b[1] = 0 THEN NaN
              ELSE RMul(a, IF b[1] < 0 THEN <<-b[2], -b[1]>> ELSE <<b[2], b[1]>>)

\* Comparisons: every comparison with NaN is false, as in JavaScript.
RLt(a, b) == /\ ~IsNaN(a) /\ ~IsNaN(b)
             /\ LET g == GCD(a[2], b[2]) IN a[1] * (b[2] \div g) < b[1] * (a[2] \div g)
RLe(a, b) == /\ ~IsNaN(a) /\ ~IsNaN(b)
             /\ LET g == GCD(a[2], b[2]) IN a[1] * (b[2] \div g) <= b[1] * (a[2] \div g)
RGt(a, b) == RLt(b, a)
RGe(a, b) == RLe(b, a)

\* Math.min / Math.max / Math.abs / Math.round
MathMin(a, b) == IF IsNaN(a) \/ IsNaN(b) THEN NaN ELSE IF RLt(b, a) THEN b ELSE a
MathMax(a, b) == IF IsNaN(a) \/ IsNaN(b) THEN NaN ELSE IF RGt(b, a) THEN b ELSE a
MathAbs(a) == IF IsNaN(a) THEN NaN ELSE <<Abs(a[1]), a[2]>>
\* Math.round rounds to the nearest integer, halves towards +Infinity.
MathRound(a) == IF IsNaN(a) THEN NaN ELSE R((2 * a[1] + a[2]) \div (2 * a[2]))

RECURSIVE SumSeq(_)
SumSeq(s) == IF s = <<>> THEN R(0) ELSE RAdd(SumSeq(SubSeq(s, 1, Len(s) - 1)), s[Len(s)])

MinOf(S) == CHOOSE x \in S : \A y \in S : x <= y

----------------------------------------------------------------------------
(* src/lib/health-score.ts                                                 *)

\* clamp that forgets the lower bound
clampUpperOnly(value) == MathMin(R(100), value)

clamp(value) == MathMax(R(0), MathMin(R(100), value))

\* round2 that truncates (Math.floor) instead of rounding
round2Floor(value) ==
    LET v == RMul(value, R(100))
    IN  IF IsNaN(v) THEN NaN ELSE RDiv(R(v[1] \div v[2]), R(100))

round2(value) == RDiv(MathRound(RMul(value, R(100))), R(100))

\* Breakpoints literal: a sequence of <<input, output>> integer pairs.
BP(pairs) == [i \in DOMAIN pairs |-> <<R(pairs[i][1]), R(pairs[i][2])>>]

ComponentKeys == <<"growth", "attendance", "retention", "momentum", "diversity", "youth">>

DEFAULT_WEIGHTS ==
    [growth |-> Frac(25, 100), attendance |-> Frac(20, 100), retention |-> Frac(20, 100),
     momentum |-> Frac(15, 100), diversity |-> Frac(10, 100), youth |-> Frac(10, 100)]

DEFAULT_BREAKPOINTS ==
    [growth     |-> BP(<< <<-20, 0>>, <<0, 50>>, <<20, 100>> >>),
     attendance |-> BP(<< <<15, 0>>, <<20, 55>>, <<23, 85>>, <<25, 100>> >>),
     retention  |-> BP(<< <<20, 0>>, <<30, 50>>, <<42, 85>>, <<50, 100>> >>),
     momentum   |-> BP(<< <<-15, 0>>, <<0, 50>>, <<15, 100>> >>),
     diversity  |-> BP(<< <<50, 100>>, <<70, 50>>, <<90, 0>> >>),
     youth      |-> BP(<< <<5, 0>>, <<13, 50>>, <<30, 100>> >>)]

\* the pair test without its upper end
bracketsLowerOnly(value, x0, x1) == RGe(value, x0)

\* value >= x0 && value <= x1
brackets(value, x0, x1) == RGe(value, x0) /\ RLe(value, x1)

\* interpolate with the lerp taken from the wrong end: y1 + t * (y0 - y1)
interpolateReversedLerp(value, breakpoints) ==
    LET n == Len(breakpoints) IN
    IF n = 0 THEN R(0)
    ELSE IF RLe(value, breakpoints[1][1]) THEN clamp(breakpoints[1][2])
    ELSE IF RGe(value, breakpoints[n][1]) THEN clamp(breakpoints[n][2])
    ELSE LET hits == {i \in 1..(n - 1) :
                        RGe(value, breakpoints[i][1]) /\ RLe(value, breakpoints[i + 1][1])}
         IN  IF hits = {} THEN clamp(breakpoints[n][2])
             ELSE LET i  == MinOf(hits)
                      x0 == breakpoints[i][1]
                      y0 == breakpoints[i][2]
                      x1 == breakpoints[i + 1][1]
                      y1 == breakpoints[i + 1][2]
                      t  == RDiv(RSub(value, x0), RSub(x1, x0))
                  IN  clamp(RAdd(y1, RMul(t, RSub(y0, y1))))

interpolate(value, breakpoints) ==
    LET n == Len(breakpoints) IN
    IF n = 0 THEN R(0)
    ELSE IF RLe(value, breakpoints[1][1]) THEN clamp(breakpoints[1][2])
    ELSE IF RGe(value, breakpoints[n][1]) THEN clamp(breakpoints[n][2])
    ELSE LET hits == {i \in 1..(n - 1) :
                        brackets(value, breakpoints[i][1], breakpoints[i + 1][1])}
         IN  IF hits = {} THEN clamp(breakpoints[n][2])
             ELSE LET i  == MinOf(hits)
                      x0 == breakpoints[i][1]
                      y0 == breakpoints[i][2]
                      x1 == breakpoints[i + 1][1]
                      y1 == breakpoints[i + 1][2]
                      t  == RDiv(RSub(value, x0), RSub(x1, x0))
                  IN  clamp(RAdd(y0, RMul(t, RSub(y1, y0))))

getBand(score) ==
    IF RGe(score, R(80)) THEN "thriving"
    ELSE IF RGe(score, R(65)) THEN "healthy"
    ELSE IF RGe(score, R(50)) THEN "stable"
    ELSE IF RGe(score, R(35)) THEN "concerning"
    ELSE "critical"

\* a merge that drops the caller's overrides
MergeDefaultsOnly(defaults, custom) == defaults

\* { ...defaults, ...custom }: the custom value wins key by key.
Merge(defaults, custom) ==
    [k \in DOMAIN defaults \cup DOMAIN custom |->
        IF k \in DOMAIN custom THEN custom[k] ELSE defaults[k]]

\* Object.keys of the merged map: the default keys in their order, then any others.
RECURSIVE SetToSeq(_)
SetToSeq(S) == IF S = {} THEN <<>>
               ELSE LET x == CHOOSE x \in S : TRUE IN <<x>> \o SetToSeq(S \ {x})
KeysOf(m) ==
    SelectSeq(ComponentKeys, LAMBDA k : k \in DOMAIN m)
        \o SetToSeq(DOMAIN m \ {ComponentKeys[i] : i \in DOMAIN ComponentKeys})

\* Object.keys(weights).reduce((sum, key) => sum + term(key), 0)
RECURSIVE ReduceKeys(_, _)
ReduceKeys(keys, term) ==
    IF keys = <<>> THEN R(0)
    ELSE RAdd(ReduceKeys(SubSeq(keys, 1, Len(keys) - 1), term), term[keys[Len(keys)]])

\* the factor 100/30, which reaches 100 at 30 countries
countryScoreOfExactThirtieth(country_count) ==
    MathMin(R(100), RMul(country_count, Frac(100, 30)))

\* Math.min(100, input.country_count * 3.33)
countryScoreOf(country_count) == MathMin(R(100), RMul(country_count, Frac(333, 100)))

\* sensitivity as a fraction instead of a percentage
sensitivityNoPercent(delta, totalDelta) ==
    IF RGt(totalDelta, R(0)) THEN round2(RDiv(delta, totalDelta)) ELSE R(0)

\* totalDelta > 0 ? round2((deltas[key] / totalDelta) * 100) : 0
sensitivityOf(delta, totalDelta) ==
    IF RGt(totalDelta, R(0)) THEN round2(RMul(RDiv(delta, totalDelta), R(100))) ELSE R(0)

\* The band taken from the reported (clamped, rounded) score.
resultBandOfReportedScore(compositeScore) == getBand(round2(clamp(compositeScore)))

\* band: getBand(compositeScore), on the sum before clamp and round2.
resultBand(compositeScore) == getBand(compositeScore)

computeHealthScore(input, methodologyVersion, customWeights, customBreakpoints) ==
    LET weights     == Merge(DEFAULT_WEIGHTS, customWeights)
        breakpoints == Merge(DEFAULT_BREAKPOINTS, customBreakpoints)
        keys        == KeysOf(weights)
        keySet      == DOMAIN weights
        growthRaw     == RDiv(RAdd(input.tournament_yoy_pct, input.entry_yoy_pct), R(2))
        attendanceRaw == input.avg_attendance
        retentionRaw  == input.retention_rate
        momentumRaw   == IF Len(input.monthly_momentum) > 0
                         THEN RDiv(SumSeq(input.monthly_momentum),
                                   R(Len(input.monthly_momentum)))
                         ELSE R(0)
        usScore       == interpolate(input.us_concentration_pct, breakpoints.diversity)
        countryScore  == countryScoreOf(input.country_count)
        diversityRaw  == RAdd(RMul(Frac(7, 10), usScore), RMul(Frac(3, 10), countryScore))
        youthRaw      == input.youth_pct
        \* a key outside the six components reads undefined, NaN in arithmetic
        scoresOf == [k \in keySet |->
            CASE k = "growth"     -> interpolate(growthRaw, breakpoints.growth)
              [] k = "attendance" -> interpolate(attendanceRaw, breakpoints.attendance)
              [] k = "retention"  -> interpolate(retentionRaw, breakpoints.retention)
              [] k = "momentum"   -> interpolate(momentumRaw, breakpoints.momentum)
              [] k = "diversity"  -> clamp(diversityRaw)
              [] k = "youth"      -> interpolate(youthRaw, breakpoints.youth)
              [] OTHER            -> NaN]
        componentRawValues == [k \in keySet |->
            CASE k = "growth"     -> growthRaw
              [] k = "attendance" -> attendanceRaw
              [] k = "retention"  -> retentionRaw
              [] k = "momentum"   -> momentumRaw
              [] k = "diversity"  -> diversityRaw
              [] k = "youth"      -> youthRaw
              [] OTHER            -> NaN]
        \* the object built from the component scores
        resultOf(componentScores) ==
            LET
            components == [k \in keySet |->
                [score     |-> round2(componentScores[k]),
                 weight    |-> weights[k],
                 raw_value |-> round2(componentRawValues[k])]]
            compositeScore ==
                ReduceKeys(keys, [k \in keySet |-> RMul(componentScores[k], weights[k])])
            deltas == [key \in keySet |->
                LET upper == ReduceKeys(keys, [k \in keySet |->
                                RMul(IF k = key
                                     THEN MathMin(R(100), RAdd(componentScores[k], R(10)))
                                     ELSE componentScores[k], weights[k])])
                    lower == ReduceKeys(keys, [k \in keySet |->
                                RMul(IF k = key
                                     THEN MathMax(R(0), RSub(componentScores[k], R(10)))
                                     ELSE componentScores[k], weights[k])])
                IN  MathAbs(RSub(upper, lower))]
            totalDelta == ReduceKeys(keys, deltas)
            sensitivity == [key \in keySet |-> sensitivityOf(deltas[key], totalDelta)]
            IN  [composite_score     |-> round2(clamp(compositeScore)),
                 band                |-> resultBand(compositeScore),
                 components          |-> components,
                 sensitivity         |-> sensitivity,
                 methodology_version |-> methodologyVersion,
                 \* not part of the returned object: the local values the result is built from
                 raw_composite       |-> compositeScore,
                 country_score       |-> countryScore,
                 total_delta         |-> totalDelta]
    IN  resultOf(scoresOf)

----------------------------------------------------------------------------
(* src/unnamed/part_001: the seasonal-ratio forecast                        *)

\* Integer square root, floor(sqrt(n)), by bisection on lo <= sqrt(n) < hi.
RECURSIVE ISqrtBetween(_, _, _)
ISqrtBetween(n, lo, hi) ==
    IF hi - lo <= 1 THEN lo
    ELSE LET mid == (lo + hi) \div 2
         IN  IF mid * mid <= n THEN ISqrtBetween(n, mid, hi) ELSE ISqrtBetween(n, lo, mid)
ISqrt(n) == IF n >= 46340 * 46340 THEN 46340 ELSE ISqrtBetween(n, 0, 46340)

\* Math.sqrt: exact when the argument is the square of a rational, otherwise
\* rounded down to a multiple of 1/(100 d) (1/d for a large argument n/d);
\* NaN for a negative argument.
MathSqrt(a) ==
    IF IsNaN(a) \/ a[1] < 0 THEN NaN
    ELSE LET rn == ISqrt(a[1])
             rd == ISqrt(a[2])
         IN  IF rn * rn = a[1] /\ rd * rd = a[2] THEN Norm(rn, rd)
             ELSE IF a[1] * a[2] < 200000
                  THEN Norm(ISqrt(a[1] * a[2] * 10000), a[2] * 100)
                  ELSE Norm(ISqrt(a[1] * a[2]), a[2])

mean(values) ==
    IF Len(values) = 0 THEN R(0) ELSE RDiv(SumSeq(values), R(Len(values)))

\* the deviation with the sign of the root lost
stddevNegated(values) ==
    IF Len(values) < 2 THEN R(0)
    ELSE LET m == mean(values)
             variance == RDiv(SumSeq([i \in DOMAIN values |->
                                        RMul(RSub(values[i], m), RSub(values[i], m))]),
                              R(Len(values)))
         IN  RNeg(MathSqrt(variance))

stddev(values) ==
    IF Len(values) < 2 THEN R(0)
    ELSE LET m == mean(values)
             variance == RDiv(SumSeq([i \in DOMAIN values |->
                                        RMul(RSub(values[i], m), RSub(values[i], m))]),
                              R(Len(values)))
         IN  MathSqrt(variance)

Months == 1..12

RECURSIVE SumInts(_)
SumInts(s) == IF s = <<>> THEN 0 ELSE SumInts(SubSeq(s, 1, Len(s) - 1)) + s[Len(s)]

\* the lookup with the month used as the array index (d.month for d.month - 1)
buildMonthlyLookupMonthAsIndex(monthlyData, year) ==
    IF \A i \in DOMAIN monthlyData : monthlyData[i].year # year THEN <<>>
    ELSE << [m \in Months |->
              SumInts([i \in DOMAIN monthlyData |->
                         IF monthlyData[i].year = year /\ monthlyData[i].month = m - 1
                         THEN monthlyData[i].event_count ELSE 0])] >>

\* The Map of buildMonthlyLookup at one year: <<>> when the year has no
\* record (Map.get is undefined), else <<counts>> with the twelve sums.
buildMonthlyLookup(monthlyData, year) ==
    IF \A i \in DOMAIN monthlyData : monthlyData[i].year # year THEN <<>>
    ELSE << [m \in Months |->
              SumInts([i \in DOMAIN monthlyData |->
                         IF monthlyData[i].year = year /\ monthlyData[i].month = m
                         THEN monthlyData[i].event_count ELSE 0])] >>

\* The Map of buildAnnualLookup at one year: the last record of the year wins.
buildAnnualLookup(annualData, year) ==
    LET idx == {i \in DOMAIN annualData : annualData[i].year = year}
    IN  IF idx = {} THEN <<>>
        ELSE << annualData[CHOOSE i \in idx : \A j \in idx : j <= i] >>

DEFAULT_REFERENCE_YEARS == <<2019, 2022, 2023, 2024, 2025>>

\* the entry fraction without the guard on the annual entries
entryFractionUnguarded(count, annual) == Frac(count, annual.tournaments)

\* annual.entries > 0 ? monthly[m] / annual.tournaments : 0
entryFraction(count, annual) ==
    IF annual.entries > 0 THEN Frac(count, annual.tournaments) ELSE R(0)

computeMonthlyWeights(annualData, monthlyData, referenceYears) ==
    LET annualOf(y)  == buildAnnualLookup(annualData, y)
        monthlyOf(y) == buildMonthlyLookup(monthlyData, y)
        \* years that pass both `continue` guards, in the order of referenceYears
        used == SelectSeq(referenceYears, LAMBDA y :
                    /\ annualOf(y) # <<>>
                    /\ monthlyOf(y) # <<>>
                    /\ annualOf(y)[1].tournaments # 0)
        tournamentFractions == [m \in Months |-> [i \in DOMAIN used |->
            Frac(monthlyOf(used[i])[1][m], annualOf(used[i])[1].tournaments)]]
        entryFractions == [m \in Months |-> [i \in DOMAIN used |->
            entryFraction(monthlyOf(used[i])[1][m], annualOf(used[i])[1])]]
    IN  [tournament_weights |-> [m \in Months |-> mean(tournamentFractions[m])],
         entry_weights      |-> [m \in Months |-> mean(entryFractions[m])],
         weight_std         |-> [m \in Months |-> stddev(tournamentFractions[m])]]

\* Stable sort of records by year (Array.prototype.sort with a year comparator).
RECURSIVE SortByYear(_, _)
SortByYear(s, descending) ==
    IF Len(s) <= 1 THEN s
    ELSE LET rest == SortByYear(SubSeq(s, 1, Len(s) - 1), descending)
             x    == s[Len(s)]
             \* x goes after every element that does not come strictly after it
             before(e) == IF descending THEN e.year >= x.year ELSE e.year <= x.year
             k    == Cardinality({i \in DOMAIN rest : \A j \in 1..i : before(rest[j])})
         IN  SubSeq(rest, 1, k) \o <<x>> \o SubSeq(rest, k + 1, Len(rest))

\* R-squared without the "1 -"
rSquaredOfResidualShare(ssRes, ssTot) == IF ssTot # R(0) THEN RDiv(ssRes, ssTot) ELSE R(0)

\* ssTot !== 0 ? 1 - ssRes / ssTot : 0
rSquaredOf(ssRes, ssTot) == IF ssTot # R(0) THEN RSub(R(1), RDiv(ssRes, ssTot)) ELSE R(0)

ZeroTrend == [slope |-> R(0), intercept |-> R(0), r_squared |-> R(0), projected_value |-> R(0)]

\* a slice that keeps five records
mostRecentFive(newest) == SubSeq(newest, 1, IF Len(newest) < 5 THEN Len(newest) ELSE 5)

\* .slice(0, 4)
mostRecent(newest) == SubSeq(newest, 1, IF Len(newest) < 4 THEN Len(newest) ELSE 4)

computeTrendLine(annualData, metric, targetYear) ==
    LET filtered  == SelectSeq(annualData, LAMBDA d : d.year # 2020 /\ d.year # 2021)
        newest    == SortByYear(filtered, TRUE)
        eligible  == SortByYear(mostRecent(newest), FALSE)
        xs        == [i \in DOMAIN eligible |-> R(eligible[i].year)]
        ys        == [i \in DOMAIN eligible |-> R(eligible[i][metric])]
        xMean     == mean(xs)
        yMean     == mean(ys)
        numerator == SumSeq([i \in DOMAIN xs |-> RMul(RSub(xs[i], xMean), RSub(ys[i], yMean))])
        denominator == SumSeq([i \in DOMAIN xs |-> RMul(RSub(xs[i], xMean), RSub(xs[i], xMean))])
        slope     == IF denominator # R(0) THEN RDiv(numerator, denominator) ELSE R(0)
        intercept == RSub(yMean, RMul(slope, xMean))
        ssRes     == SumSeq([i \in DOMAIN ys |->
                        LET predicted == RAdd(RMul(slope, xs[i]), intercept)
                        IN  RMul(RSub(ys[i], predicted), RSub(ys[i], predicted))])
        ssTot     == SumSeq([i \in DOMAIN ys |-> RMul(RSub(ys[i], yMean), RSub(ys[i], yMean))])
        r_squared == rSquaredOf(ssRes, ssTot)
    IN  IF Len(eligible) < 2 THEN ZeroTrend
        ELSE [slope |-> slope, intercept |-> intercept, r_squared |-> r_squared,
              projected_value |-> MathRound(RAdd(RMul(slope, R(targetYear)), intercept))]

\* .slice(0, completedMonths) of a twelve-element array
FirstMonths(arr, completedMonths) ==
    SubSeq(arr, 1, IF completedMonths > 12 THEN 12
                   ELSE IF completedMonths < 0 THEN 0 ELSE completedMonths)

\* the early-return test that forgets the entry weight
isSuppressedTournamentOnly(completedMonths, cumulativeTournamentWeight, cumulativeEntryWeight) ==
    \/ completedMonths < 2
    \/ RLt(cumulativeTournamentWeight, Frac(1, 1000))

\* The two early returns of computeForecast.
isSuppressed(completedMonths, cumulativeTournamentWeight, cumulativeEntryWeight) ==
    \/ completedMonths < 2
    \/ RLt(cumulativeTournamentWeight, Frac(1, 1000))
    \/ RLt(cumulativeEntryWeight, Frac(1, 1000))

\* the four bounds with the one- and two-sigma widths exchanged
ciBoundsSwapped(projected, centre, spread) ==
    [low68  |-> MathRound(RMul(projected, RSub(centre, RMul(R(2), spread)))),
     high68 |-> MathRound(RMul(projected, RAdd(centre, RMul(R(2), spread)))),
     low95  |-> MathRound(RMul(projected, RSub(centre, spread))),
     high95 |-> MathRound(RMul(projected, RAdd(centre, spread)))]

\* Math.round(projected * (centre -/+ spread)) and (centre -/+ 2 * spread)
ciBounds(projected, centre, spread) ==
    [low68  |-> MathRound(RMul(projected, RSub(centre, spread))),
     high68 |-> MathRound(RMul(projected, RAdd(centre, spread))),
     low95  |-> MathRound(RMul(projected, RSub(centre, RMul(R(2), spread)))),
     high95 |-> MathRound(RMul(projected, RAdd(centre, RMul(R(2), spread))))]

emptyResult(targetYear, completedMonths) ==
    [target_year |-> targetYear, months_of_data |-> completedMonths,
     projected_tournaments |-> R(0), projected_entries |-> R(0),
     ci_68_low_tournaments |-> R(0), ci_68_high_tournaments |-> R(0),
     ci_95_low_tournaments |-> R(0), ci_95_high_tournaments |-> R(0),
     ci_68_low_entries |-> R(0), ci_68_high_entries |-> R(0),
     ci_95_low_entries |-> R(0), ci_95_high_entries |-> R(0),
     method |-> "seasonal_ratio", trend_reference |-> <<>>]

\* the year filter that forgets the target year
isBackTestYearTargetIncluded(y, targetYear) == y # 2020 /\ y # 2021

\* .filter((y) => y !== 2020 && y !== 2021 && y !== targetYear)
isBackTestYear(y, targetYear) == y # 2020 /\ y # 2021 /\ y # targetYear

\* Years of the back-test loop that reach the push of a tournament ratio.
backTestQualifies(annualData, monthlyData, completedMonths, year) ==
    LET annual  == buildAnnualLookup(annualData, year)
        monthly == buildMonthlyLookup(monthlyData, year)
    IN  /\ annual # <<>>
        /\ monthly # <<>>
        /\ annual[1].tournaments # 0
        /\ SumInts(FirstMonths(monthly[1], completedMonths)) # 0

\* trend_reference is <<>> for null and <<t>> for a TrendReference t.
computeForecast(ytdTournaments, ytdEntries, completedMonths, monthlyWeights, annualData, monthlyData, targetYear) ==
    LET cumulativeTournamentWeight ==
            SumSeq(FirstMonths(monthlyWeights.tournament_weights, completedMonths))
        cumulativeEntryWeight ==
            SumSeq(FirstMonths(monthlyWeights.entry_weights, completedMonths))
        projectedTournaments == RDiv(R(ytdTournaments), cumulativeTournamentWeight)
        projectedEntries     == RDiv(R(ytdEntries), cumulativeEntryWeight)
        annualOf(y)  == buildAnnualLookup(annualData, y)[1]
        ytdHistorical(y) ==
            SumInts(FirstMonths(buildMonthlyLookup(monthlyData, y)[1], completedMonths))
        allYears      == [i \in DOMAIN annualData |-> annualData[i].year]
        backTestYears == SelectSeq(allYears, LAMBDA y : isBackTestYear(y, targetYear))
        tournamentYears == SelectSeq(backTestYears, LAMBDA y :
                            backTestQualifies(annualData, monthlyData, completedMonths, y))
        entryYears    == SelectSeq(tournamentYears, LAMBDA y : annualOf(y).entries > 0)
        tournamentRatios == [i \in DOMAIN tournamentYears |->
            LET y == tournamentYears[i]
                projectedHistorical == RDiv(R(ytdHistorical(y)), cumulativeTournamentWeight)
            IN  RDiv(R(annualOf(y).tournaments), projectedHistorical)]
        entryRatios == [i \in DOMAIN entryYears |->
            LET y == entryYears[i]
                projectedHistoricalEntries == RDiv(R(ytdHistorical(y)), cumulativeEntryWeight)
            IN  RDiv(R(annualOf(y).entries), projectedHistoricalEntries)]
        cumulativeWeightStd ==
            MathSqrt(SumSeq([i \in DOMAIN FirstMonths(monthlyWeights.weight_std, completedMonths) |->
                        RMul(monthlyWeights.weight_std[i], monthlyWeights.weight_std[i])]))
        relativeUncertainty == RDiv(cumulativeWeightStd, cumulativeTournamentWeight)
        ciT == IF Len(tournamentRatios) >= 2
               THEN ciBounds(projectedTournaments, mean(tournamentRatios), stddev(tournamentRatios))
               ELSE ciBounds(projectedTournaments, R(1), relativeUncertainty)
        ciE == IF Len(entryRatios) >= 2
               THEN ciBounds(projectedEntries, mean(entryRatios), stddev(entryRatios))
               ELSE ciBounds(projectedEntries, R(1), relativeUncertainty)
    IN  IF isSuppressed(completedMonths, cumulativeTournamentWeight, cumulativeEntryWeight)
        THEN emptyResult(targetYear, completedMonths)
        ELSE [target_year |-> targetYear, months_of_data |-> completedMonths,
              projected_tournaments |-> MathRound(projectedTournaments),
              projected_entries |-> MathRound(projectedEntries),
              ci_68_low_tournaments |-> ciT.low68, ci_68_high_tournaments |-> ciT.high68,
              ci_95_low_tournaments |-> ciT.low95, ci_95_high_tournaments |-> ciT.high95,
              ci_68_low_entries |-> ciE.low68, ci_68_high_entries |-> ciE.high68,
              ci_95_low_entries |-> ciE.low95, ci_95_high_entries |-> ciE.high95,
              method |-> "seasonal_ratio",
              trend_reference |-> <<computeTrendLine(annualData, "tournaments", targetYear)>>]

----------------------------------------------------------------------------
(* src/app/api/admin/observations/route.ts: the observations route and the *)
(* calibration route.  Dates are day numbers (new Date on an ISO date is   *)
(* monotonic in the day); the Supabase queries are taken to succeed.       *)

CronSecret == "s3cret"
NotConfigured == <<>>

\* `Bearer ${process.env.CRON_SECRET}`: an unset variable prints as "undefined"
BearerOf(secret) ==
    <<"Bearer", IF secret = NotConfigured THEN "undefined" ELSE secret[1]>>

\* authHeader !== `Bearer ${process.env.CRON_SECRET}`
Unauthorized(authHeader) == authHeader # BearerOf(CRON_SECRET)

validBands == {"thriving", "healthy", "stable", "concerning", "critical"}

\* Sum of f[x] over the finite set S.
RECURSIVE SumOver(_, _)
SumOver(S, f) ==
    IF S = {} THEN R(0)
    ELSE LET x == CHOOSE x \in S : TRUE IN RAdd(f[x], SumOver(S \ {x}, f))

\* the count test with the threshold one too low
tooFewObservationsBelowTwo(obsRows) == Len(obsRows) < 2

\* !observations || observations.length < 3
tooFewObservations(obsRows) == Len(obsRows) < 3

\* the date filter with the end of the period excluded
matchingScoresEndExclusive(shadow, version_number, obs) ==
    {k \in DOMAIN shadow :
        /\ k[2] = version_number
        /\ k[1] >= obs.period_start
        /\ k[1] < obs.period_end}

\* Keys of the version's shadow scores whose score_date lies in the
\* observation period.
matchingScores(shadow, version_number, obs) ==
    {k \in DOMAIN shadow :
        /\ k[2] = version_number
        /\ k[1] >= obs.period_start
        /\ k[1] <= obs.period_end}

\* The body of results = versions.map(...) for one version; mae is <<>> for
\* null and <<m>> for a number m.
calibrateVersion(version_number, row, obsRows, shadow) ==
    LET matched == {i \in DOMAIN obsRows :
                        matchingScores(shadow, version_number, obsRows[i]) # {}}
        errorOf == [i \in matched |->
            LET ms == matchingScores(shadow, version_number, obsRows[i])
                avgScore == RDiv(SumOver(ms, [k \in ms |-> shadow[k]]), R(Cardinality(ms)))
            IN  MathAbs(RSub(avgScore, obsRows[i].observed_score))]
        totalError == SumOver(matched, errorOf)
        matchCount == Cardinality(matched)
    IN  [version_number |-> version_number,
         is_active |-> row.is_active,
         mae |-> IF matchCount > 0 THEN <<RDiv(totalError, R(matchCount))>> ELSE <<>>,
         observations_matched |-> matchCount,
         total_shadow_scores |-> Cardinality({k \in DOMAIN shadow : k[2] = version_number})]

\* versions ordered by version_number (.order('version_number'))
RECURSIVE SortedVersionNumbers(_)
SortedVersionNumbers(S) ==
    IF S = {} THEN <<>> ELSE <<MinOf(S)>> \o SortedVersionNumbers(S \ {MinOf(S)})

\* the first result with a non-null mae, without the sort
bestVersionFirstRanked(results) ==
    LET ranked == {i \in DOMAIN results : results[i].mae # <<>>}
    IN  IF ranked = {} THEN <<>> ELSE <<results[MinOf(ranked)]>>

\* rankedVersions[0]: the first result, in result order, among those with the
\* least non-null mae (the sort is stable); <<>> when no mae is non-null.
bestVersion(results) ==
    LET ranked == {i \in DOMAIN results : results[i].mae # <<>>}
        least  == {i \in ranked : \A j \in ranked : RLe(results[i].mae[1], results[j].mae[1])}
    IN  IF ranked = {} THEN <<>> ELSE <<results[MinOf(least)]>>

\* the update without the test for a null mae
updateBacktestMaeAlways(row, result) == [row EXCEPT !.backtest_mae = result.mae]

\* if (result.mae !== null) update({ backtest_mae: result.mae })
updateBacktestMae(row, result) ==
    IF result.mae # <<>> THEN [row EXCEPT !.backtest_mae = result.mae] ELSE row

----------------------------------------------------------------------------
(* Calls of computeHealthScore: the arguments are drawn from bounded sets  *)
(* that hold negative values, values above 100, the breakpoint inputs      *)
(* themselves and values between them.                                     *)

MaxMomentumLen == 3

RECURSIVE SeqsUpTo(_, _)
SeqsUpTo(S, n) ==
    IF n = 0 THEN {<<>>}
    ELSE LET shorter == SeqsUpTo(S, n - 1)
         IN  shorter \cup {Append(s, x) : s \in {q \in shorter : Len(q) = n - 1}, x \in S}

MomentumValues == {R(5), R(-30)}

HealthScoreInputs ==
    [tournament_yoy_pct   : {R(10), R(-50)},
     entry_yoy_pct        : {R(10)},
     avg_attendance       : {R(23), R(200)},
     retention_rate       : {R(42)},
     monthly_momentum     : SeqsUpTo(MomentumValues, MaxMomentumLen),
     us_concentration_pct : {R(70), R(120)},
     country_count        : {R(30), R(31), R(-1000)},
     youth_pct            : {R(13), R(-1)}]

\* customWeights undefined is the empty map.
Undefined == <<>>

ZeroWeights ==
    [growth |-> R(0), attendance |-> R(0), retention |-> R(0),
     momentum |-> R(0), diversity |-> R(0), youth |-> R(0)]

WeightChoices ==
    {Undefined,
     ZeroWeights,
     [ZeroWeights EXCEPT !.growth = R(2), !.youth = R(-1)],
     [ZeroWeights EXCEPT !.growth = Frac(19999, 25000)],
     [diversity |-> Frac(1, 2), growth |-> R(0), momentum |-> R(0)],
     [growth |-> Frac(3, 10)],
     [bonus |-> Frac(1, 10)],
     [bonus |-> R(0)]}

SinglePoint(v) == BP(<< <<v, 100>> >>)

BreakpointChoices ==
    {Undefined,
     [growth |-> SinglePoint(0), attendance |-> SinglePoint(20), retention |-> SinglePoint(30),
      momentum |-> SinglePoint(0), diversity |-> SinglePoint(70), youth |-> SinglePoint(13)]}

HsIdle ==
    /\ hsPc = "idle"
    /\ hsInput = <<>>
    /\ hsWeights = <<>>
    /\ hsBreakpoints = <<>>
    /\ hsResult = <<>>

HsInit ==
    /\ hsPc = "call"
    /\ hsInput \in HealthScoreInputs
    /\ hsWeights \in WeightChoices
    /\ hsBreakpoints \in BreakpointChoices
    /\ hsResult = <<>>

ComputeHealthScore ==
    /\ hsPc = "call"
    /\ hsResult' = computeHealthScore(hsInput, 1, hsWeights, hsBreakpoints)
    /\ hsPc' = "done"
    /\ UNCHANGED <<hsInput, hsWeights, hsBreakpoints, ipVars, fcVars, tlVars, calVars, jobVars, cronVars>>

----------------------------------------------------------------------------
(* Calls of interpolate on one breakpoint list: the list is any list of    *)
(* up to MaxBpLen pairs (sorted or not, with or without repeated inputs),  *)
(* and the last two calls are remembered.                                  *)

MaxBpLen == 3

BpInputs  == {0, 2, 4}
BpOutputs == {-10, 40, 130}
IpValues  == -1..5

BreakpointLists ==
    SeqsUpTo({<<R(x), R(y)>> : x \in BpInputs, y \in BpOutputs}, MaxBpLen)

IpIdle ==
    /\ ipBp = <<>>
    /\ ipCalls = <<>>

\* Four-point lists over the same inputs in every order, repeated inputs
\* included, with outputs that rise and fall.
BpRepeatedLists ==
    {[i \in 1..4 |-> <<R(x[i]), R(<<-10, 40, 130, 40>>[i])>>] : x \in [1..4 -> BpInputs]}

IpInit ==
    /\ ipBp \in BreakpointLists \cup BpRepeatedLists
    /\ ipCalls = <<>>

Interpolate(v) ==
    /\ Len(ipCalls) < 2
    /\ ipCalls' = Append(ipCalls, <<R(v), interpolate(R(v), ipBp)>>)
    /\ UNCHANGED <<ipBp, hsVars, fcVars, tlVars, calVars, jobVars, cronVars>>

----------------------------------------------------------------------------
(* The forecast engine: annual and monthly history of the reference years  *)
(* 2019 and 2022; the weights come from computeMonthlyWeights or are       *)
(* supplied by the caller; then computeForecast is called.                 *)

MaxCompletedMonths == 2

FcYears == <<2019, 2022>>
FcTargetYears == {2026}
AnnualTournaments == {0, 1, 4}
AnnualEntries == {0, 20}
\* event_count of a (year, month) record; 0 stands for "no record"
JanuaryCounts == {0, 1, 2}
FebruaryCounts == {0, 1}
YtdTournaments == {0, 1, 3}
YtdEntries == {10}

AnnualRecords == [year : {0}, tournaments : AnnualTournaments, entries : AnnualEntries]

\* monthly records in (year, month) order, as the query of the forecaster returns them
MonthlyFrom(counts) ==
    LET cell(k) == [year |-> FcYears[(k + 1) \div 2],
                    month |-> 2 - (k % 2),
                    event_count |-> counts[k]]
    IN  SelectSeq([k \in 1..(2 * Len(FcYears)) |-> cell(k)], LAMBDA r : r.event_count # 0)

\* Records of the years the back-test leaves out (2020, 2021 and the target
\* year), added to the annual and the monthly rows.
ExcludedYearRecords ==
    {[annual |-> <<>>, monthly |-> <<>>],
     [annual  |-> <<[year |-> 2020, tournaments |-> 4, entries |-> 20]>>,
      monthly |-> <<[year |-> 2020, month |-> 1, event_count |-> 2],
                    [year |-> 2026, month |-> 2, event_count |-> 1]>>],
     [annual  |-> <<[year |-> 2021, tournaments |-> 1, entries |-> 0],
                    [year |-> 2026, tournaments |-> 1, entries |-> 20]>>,
      monthly |-> <<[year |-> 2026, month |-> 1, event_count |-> 1],
                    [year |-> 2026, month |-> 2, event_count |-> 1]>>]}

Vec12(january, february) ==
    [m \in Months |-> IF m = 1 THEN january ELSE IF m = 2 THEN february ELSE R(0)]

SuppliedWeights ==
    {[tournament_weights |-> Vec12(Frac(1, 2000), Frac(1, 2000)),
      entry_weights      |-> Vec12(Frac(1, 4000), Frac(1, 4000)),
      weight_std         |-> Vec12(R(0), R(0))],
     [tournament_weights |-> Vec12(Frac(1, 4000), Frac(1, 4000)),
      entry_weights      |-> Vec12(Frac(1, 2), Frac(1, 4)),
      weight_std         |-> Vec12(R(0), R(0))],
     [tournament_weights |-> Vec12(Frac(1, 2000), Frac(1, 2000)),
      entry_weights      |-> Vec12(Frac(1, 2000), Frac(1, 2000)),
      weight_std         |-> Vec12(Frac(1, 4000), R(0))]}

FcIdle ==
    /\ fcPc = "idle"
    /\ fcAnnual = <<>>
    /\ fcMonthly = <<>>
    /\ fcWeights = <<>>
    /\ fcArgs = <<>>
    /\ forecast = <<>>

FcInit ==
    /\ fcPc = "data"
    /\ \E a \in [DOMAIN FcYears -> AnnualRecords],
          c \in [1..(2 * Len(FcYears)) -> JanuaryCounts \cup FebruaryCounts],
          x \in ExcludedYearRecords :
          /\ \A k \in DOMAIN c : c[k] \in (IF k % 2 = 1 THEN JanuaryCounts ELSE FebruaryCounts)
          \* both queries order by year ascending
          /\ fcAnnual = SortByYear([i \in DOMAIN FcYears |-> [a[i] EXCEPT !.year = FcYears[i]]]
                                   \o x.annual, FALSE)
          /\ fcMonthly = SortByYear(MonthlyFrom(c) \o x.monthly, FALSE)
    /\ fcWeights = <<>>
    /\ fcArgs = <<>>
    /\ forecast = <<>>

\* Rows for computeMonthlyWeights alone: a reference year may lack its
\* annual row, and a month may have no row or a row with event_count 0.
OptionalCounts(S) == {<<>>} \cup {<<n>> : n \in S}

MwMonthlyFrom(counts) ==
    LET cell(k) == [year |-> FcYears[(k + 1) \div 2],
                    month |-> 2 - (k % 2),
                    event_count |-> IF counts[k] = <<>> THEN 0 ELSE counts[k][1]]
    IN  SelectSeq([k \in 1..(2 * Len(FcYears)) |-> cell(k)],
                  LAMBDA r : counts[2 * (CHOOSE i \in DOMAIN FcYears : FcYears[i] = r.year)
                                    - (r.month % 2)] # <<>>)

MwInit ==
    /\ fcPc = "data"
    /\ \E a \in [DOMAIN FcYears -> {<<>>} \cup {<<r>> : r \in AnnualRecords}],
          c \in [1..(2 * Len(FcYears)) -> OptionalCounts(JanuaryCounts \cup FebruaryCounts)] :
          /\ \A k \in DOMAIN c :
                c[k] \in OptionalCounts(IF k % 2 = 1 THEN JanuaryCounts ELSE FebruaryCounts)
          /\ fcAnnual = [j \in 1..Cardinality({i \in DOMAIN FcYears : a[i] # <<>>}) |->
                LET i == CHOOSE i \in DOMAIN FcYears :
                            /\ a[i] # <<>>
                            /\ Cardinality({h \in 1..i : a[h] # <<>>}) = j
                IN  [a[i][1] EXCEPT !.year = FcYears[i]]]
          /\ fcMonthly = MwMonthlyFrom(c)
    /\ fcWeights = <<>>
    /\ fcArgs = <<>>
    /\ forecast = <<>>

ComputeMonthlyWeights ==
    /\ fcPc = "data"
    /\ fcWeights' = computeMonthlyWeights(fcAnnual, fcMonthly, DEFAULT_REFERENCE_YEARS)
    /\ fcPc' = "weights"
    /\ UNCHANGED <<fcAnnual, fcMonthly, fcArgs, forecast, hsVars, ipVars, tlVars, calVars, jobVars, cronVars>>

SupplyWeights(w) ==
    /\ fcPc = "data"
    /\ fcWeights' = w
    /\ fcPc' = "supplied"
    /\ UNCHANGED <<fcAnnual, fcMonthly, fcArgs, forecast, hsVars, ipVars, tlVars, calVars, jobVars, cronVars>>

ComputeForecast(ytdTournaments, ytdEntries, completedMonths, targetYear) ==
    /\ fcPc \in {"weights", "supplied"}
    /\ fcArgs' = [ytdTournaments |-> ytdTournaments, ytdEntries |-> ytdEntries,
                  completedMonths |-> completedMonths, targetYear |-> targetYear,
                  weightsFrom |-> fcPc]
    /\ forecast' = computeForecast(ytdTournaments, ytdEntries, completedMonths,
                                   fcWeights, fcAnnual, fcMonthly, targetYear)
    /\ fcPc' = "done"
    /\ UNCHANGED <<fcAnnual, fcMonthly, fcWeights, hsVars, ipVars, tlVars, calVars, jobVars, cronVars>>

----------------------------------------------------------------------------
(* Calls of computeTrendLine on up to MaxTrendRecords annual records, in   *)
(* any order, anomaly years and repeated years included.                   *)

MaxTrendRecords == 3

TlRecords == [year : {2019, 2020, 2022, 2023}, tournaments : {5, 11}, entries : {7}]
TlMetrics == {"tournaments", "entries"}

TlIdle ==
    /\ tlPc = "idle"
    /\ tlData = <<>>
    /\ tlArgs = <<>>
    /\ tlResult = <<>>

\* annualData as the forecaster passes it: one record per year, the years
\* 2020 and the target year 2026 among them, in every order
TlYearlyRecords ==
    {[year |-> 2018, tournaments |-> 5,  entries |-> 7],
     [year |-> 2019, tournaments |-> 11, entries |-> 7],
     [year |-> 2020, tournaments |-> 1,  entries |-> 2],
     [year |-> 2022, tournaments |-> 7,  entries |-> 20],
     [year |-> 2023, tournaments |-> 11, entries |-> 31],
     [year |-> 2026, tournaments |-> 2,  entries |-> 5]}

TlYearlyData ==
    {q \in SeqsUpTo(TlYearlyRecords, Cardinality(TlYearlyRecords)) :
        \A i, j \in DOMAIN q : i # j => q[i] # q[j]}

TlInit ==
    /\ tlPc = "call"
    /\ tlData \in SeqsUpTo(TlRecords, MaxTrendRecords) \cup TlYearlyData
    /\ tlArgs = <<>>
    /\ tlResult = <<>>

ComputeTrendLine(metric, targetYear) ==
    /\ tlPc = "call"
    /\ tlArgs' = [metric |-> metric, targetYear |-> targetYear]
    /\ tlResult' = computeTrendLine(tlData, metric, targetYear)
    /\ tlPc' = "done"
    /\ UNCHANGED <<tlData, hsVars, ipVars, fcVars, calVars, jobVars, cronVars>>

----------------------------------------------------------------------------
(* The admin routes on a store with two methodology versions and a bounded *)
(* table of shadow scores; observations arrive through the POST route.     *)

MaxObs == 3

Dates == 1..3
VersionNumbers == {1, 2}
\* request.headers.get('authorization'): null (here <<>>) without the header
NoHeader == <<>>
AuthHeaders == {<<"Bearer", "s3cret">>, <<"Bearer", "guess">>, <<"Bearer", "undefined">>, NoHeader}

\* JSON values of the observed_score field: a number, null or a string.
JsonNumber(r) == [type |-> "number", number |-> r, text |-> ""]
JsonNull == [type |-> "null", number |-> R(0), text |-> ""]
JsonString(t) == [type |-> "string", number |-> R(0), text |-> t]

\* Number(value): a number is itself, null is 0, a string is the number it
\* spells, 0 when it is empty and NaN otherwise.
Number(value) ==
    CASE value.type = "number" -> value.number
      [] value.type = "null"   -> R(0)
      [] value.type = "string" ->
            IF value.text = "" THEN R(0)
            ELSE IF value.text = "75" THEN R(75)
            ELSE NaN

\* Request bodies; an absent field is <<>>, a present one <<value>>.
Body(ps, pe, health, score) ==
    [period_start |-> ps, period_end |-> pe, observed_health |-> health, observed_score |-> score]

ObservationBodies ==
    {Body(<<1>>, <<1>>, <<"healthy">>, <<JsonNumber(R(50))>>),
     Body(<<1>>, <<2>>, <<"stable">>, <<JsonNumber(R(75))>>),
     Body(<<2>>, <<3>>, <<"critical">>, <<JsonNumber(R(50))>>),
     Body(<<3>>, <<1>>, <<"thriving">>, <<JsonNumber(R(75))>>),
     Body(<<>>, <<2>>, <<"healthy">>, <<JsonNumber(R(50))>>),
     Body(<<1>>, <<2>>, <<"excellent">>, <<JsonNumber(R(50))>>),
     Body(<<1>>, <<2>>, <<"healthy">>, <<JsonNumber(R(101))>>),
     Body(<<1>>, <<2>>, <<"healthy">>, <<JsonString("abc")>>),
     Body(<<1>>, <<2>>, <<"stable">>, <<JsonString("75")>>),
     Body(<<1>>, <<1>>, <<"healthy">>, <<JsonNull>>),
     Body(<<1>>, <<2>>, <<"healthy">>, <<>>)}

\* shadow_scores tables: version 1 scored on any of the three days, version 2
\* on day 2 or never.
ShadowChoices ==
    {[k \in keys |-> IF k[2] = 2 THEN R(70) ELSE IF k[1] = 2 THEN R(90) ELSE R(60)] :
        keys \in SUBSET ((Dates \X {1}) \cup {<<2, 2>>})}

NoResponse == [route |-> "none", status |-> 0]

CalIdle ==
    /\ observations = <<>>
    /\ versions = <<>>
    /\ shadowScores = <<>>
    /\ calResponse = NoResponse

\* methodology_versions rows: version 1 is active and uses the defaults,
\* version 2 overrides two weights and carries the MAE of an earlier
\* calibration.
VersionRows ==
    [v \in VersionNumbers |->
        IF v = 1
        THEN [is_active |-> TRUE, weights |-> Undefined, breakpoints |-> Undefined,
              backtest_mae |-> <<>>]
        ELSE [is_active |-> FALSE,
              weights |-> [growth |-> Frac(35, 100), youth |-> R(0)],
              breakpoints |-> Undefined,
              backtest_mae |-> <<R(12)>>]]

CalInit ==
    /\ observations = <<>>
    /\ versions = VersionRows
    /\ shadowScores \in ShadowChoices
    /\ calResponse = NoResponse

\* POST /api/admin/observations
PostObservation(authHeader, body) ==
    /\ Len(observations) < MaxObs
    /\ IF Unauthorized(authHeader)
       THEN /\ calResponse' = [route |-> "observations", status |-> 401]
            /\ UNCHANGED observations
       ELSE IF \/ body.period_start = <<>> \/ body.period_end = <<>>
               \/ body.observed_health = <<>> \/ body.observed_score = <<>>
       THEN /\ calResponse' = [route |-> "observations", status |-> 400]
            /\ UNCHANGED observations
       ELSE IF body.observed_health[1] \notin validBands
       THEN /\ calResponse' = [route |-> "observations", status |-> 400]
            /\ UNCHANGED observations
       ELSE LET score == Number(body.observed_score[1]) IN
            IF IsNaN(score) \/ RLt(score, R(0)) \/ RGt(score, R(100))
            THEN /\ calResponse' = [route |-> "observations", status |-> 400]
                 /\ UNCHANGED observations
            ELSE /\ observations' = Append(observations,
                        [period_start |-> body.period_start[1],
                         period_end |-> body.period_end[1],
                         observed_health |-> body.observed_health[1],
                         observed_score |-> score])
                 /\ calResponse' = [route |-> "observations", status |-> 201]
    /\ UNCHANGED <<versions, shadowScores, hsVars, ipVars, fcVars, tlVars, jobVars, cronVars>>

\* POST /api/admin/calibrate
Calibrate(authHeader) ==
    /\ IF Unauthorized(authHeader)
       THEN /\ calResponse' = [route |-> "calibrate", status |-> 401]
            /\ UNCHANGED versions
       ELSE IF tooFewObservations(observations)
       THEN /\ calResponse' = [route |-> "calibrate", status |-> 400,
                               error |-> "Need at least 3 observations to calibrate",
                               observation_count |-> Len(observations)]
            /\ UNCHANGED versions
       ELSE LET order   == SortedVersionNumbers(DOMAIN versions)
                results == [i \in DOMAIN order |->
                              calibrateVersion(order[i], versions[order[i]],
                                               observations, shadowScores)]
            IN  /\ versions' = [v \in DOMAIN versions |->
                        LET r == results[CHOOSE i \in DOMAIN order : order[i] = v]
                        IN  updateBacktestMae(versions[v], r)]
                /\ calResponse' = [route |-> "calibrate", status |-> 200,
                                   results |-> results,
                                   recommendation |-> bestVersion(results),
                                   observation_count |-> Len(observations)]
    /\ UNCHANGED <<observations, shadowScores, hsVars, ipVars, fcVars, tlVars, jobVars, cronVars>>

----------------------------------------------------------------------------
(* src/lib/health-score.ts 547-681: the GET handlers of the daily and the  *)
(* weekly cron route.  A handler advances from one await to the next; the  *)
(* Supabase client reports a failed statement in its result and does not   *)
(* throw, a collector returns or throws.                                   *)

MaxRuns == 2

CronRoutes == {"daily", "weekly"}

\* the collectors of a route in the order of its try block
Collectors(route) ==
    IF route = "daily"
    THEN <<"runDailyCollection", "runHealthScorer", "runForecaster">>
    ELSE <<"runAnnualCollection", "runMonthlyCollection", "runCountryCollection">>

DbOutcomes == {"ok", "error"}
CollectorOutcomes == {"returns", "throws"}

\* Locals of a handler: authHeader, run (data of the insert, <<>> for null),
\* the collectors called so far, what the try block threw, whether a
\* statement of this request failed, and the response.
IdleHandler ==
    [pc |-> "idle", authHeader |-> NoHeader, run |-> <<>>, started |-> <<>>,
     thrown |-> <<>>, dbFailed |-> FALSE, response |-> "none"]

CronIdle ==
    /\ CRON_SECRET = <<CronSecret>>
    /\ collection_runs = <<>>
    /\ handlers = [r \in CronRoutes |-> IdleHandler]

CronInit ==
    /\ CRON_SECRET \in {NotConfigured, <<CronSecret>>}
    /\ collection_runs = <<>>
    /\ handlers = [r \in CronRoutes |-> IdleHandler]

\* .update({status, ...}).eq('id', id): the error of a failed update is dropped
updateRun(id, status, outcome) ==
    IF outcome = "ok"
    THEN [collection_runs EXCEPT ![id].status = status]
    ELSE collection_runs

\* GET up to the first collector: the header test and the insert of the run
CronRequest(route, authHeader, outcome) ==
    /\ handlers[route].pc \in {"idle", "done"}
    /\ Len(collection_runs) < MaxRuns
    /\ IF Unauthorized(authHeader)
       THEN /\ handlers' = [handlers EXCEPT ![route] =
                    [IdleHandler EXCEPT !.pc = "done", !.authHeader = authHeader,
                                        !.response = "unauthorized"]]
            /\ UNCHANGED collection_runs
       ELSE IF outcome = "ok"
       THEN /\ collection_runs' = Append(collection_runs,
                    [run_type |-> route, status |-> "running"])
            /\ handlers' = [handlers EXCEPT ![route] =
                    [IdleHandler EXCEPT !.pc = "collect", !.authHeader = authHeader,
                                        !.run = <<Len(collection_runs) + 1>>]]
       ELSE /\ handlers' = [handlers EXCEPT ![route] =
                    [IdleHandler EXCEPT !.pc = "collect", !.authHeader = authHeader,
                                        !.dbFailed = TRUE]]
            /\ UNCHANGED collection_runs
    /\ UNCHANGED <<CRON_SECRET, hsVars, ipVars, fcVars, tlVars, calVars, jobVars>>

\* the next await of the try block: a collector that returns or throws
RunCollector(route, outcome) ==
    LET h    == handlers[route]
        i    == Len(h.started) + 1
        name == Collectors(route)[i]
    IN  /\ h.pc = "collect"
        /\ handlers' = [handlers EXCEPT ![route] =
                [h EXCEPT !.started = Append(h.started, name),
                          !.thrown = IF outcome = "throws" THEN <<name>> ELSE <<>>,
                          !.pc = IF outcome = "throws" THEN "catch"
                                 ELSE IF i = Len(Collectors(route)) THEN "update"
                                 ELSE "collect"]]
        /\ UNCHANGED <<CRON_SECRET, collection_runs, hsVars, ipVars, fcVars, tlVars, calVars, jobVars>>

\* the end of the try block: run!.id throws a TypeError when run is null
UpdateSuccess(route, outcome) ==
    LET h == handlers[route]
    IN  /\ h.pc = "update"
        /\ IF h.run = <<>>
           THEN /\ handlers' = [handlers EXCEPT ![route] =
                        [h EXCEPT !.pc = "catch", !.thrown = <<"TypeError">>]]
                /\ UNCHANGED collection_runs
           ELSE /\ collection_runs' = updateRun(h.run[1], "success", outcome)
                /\ handlers' = [handlers EXCEPT ![route] =
                        [h EXCEPT !.pc = "done", !.response = "success",
                                  !.dbFailed = h.dbFailed \/ outcome = "error"]]
        /\ UNCHANGED <<CRON_SECRET, hsVars, ipVars, fcVars, tlVars, calVars, jobVars>>

\* the catch block: run!.id throws again when run is null and the handler
\* rejects without a response of its own
CatchError(route, outcome) ==
    LET h == handlers[route]
    IN  /\ h.pc = "catch"
        /\ IF h.run = <<>>
           THEN /\ handlers' = [handlers EXCEPT ![route] =
                        [h EXCEPT !.pc = "done", !.response = "rejected"]]
                /\ UNCHANGED collection_runs
           ELSE /\ collection_runs' = updateRun(h.run[1], "error", outcome)
                /\ handlers' = [handlers EXCEPT ![route] =
                        [h EXCEPT !.pc = "done", !.response = "error",
                                  !.dbFailed = h.dbFailed \/ outcome = "error"]]
        /\ UNCHANGED <<CRON_SECRET, hsVars, ipVars, fcVars, tlVars, calVars, jobVars>>

\* The admin routes next to the cron routes: one table of scores and two
\* request bodies.
CronCalInit ==
    /\ observations = <<>>
    /\ versions = VersionRows
    /\ shadowScores = [k \in Dates \X {1} |-> R(60)]
    /\ calResponse = NoResponse

CronBodies ==
    {Body(<<1>>, <<2>>, <<"stable">>, <<JsonNumber(R(75))>>),
     Body(<<1>>, <<2>>, <<"excellent">>, <<JsonNumber(R(50))>>)}

----------------------------------------------------------------------------
(* src/unnamed/part_001 runHealthScorer and src/unnamed/part_000           *)
(* runForecaster.  Each job is a process; every await on a write to the    *)
(* store is a step of its own, so that runs interleave.  The collected     *)
(* tables the jobs read do not change while they run, so the reads of one  *)
(* job are taken in its first step.  The queries are taken to succeed.     *)
(* A table the jobs write is a bag of rows.                                *)

CurrentYear == 2026
REFERENCE_YEARS == <<2019, 2022, 2023, 2024, 2025>>

\* x ? parseFloat(String(x)) : 0 on a nullable numeric column (<<>> is null)
numericOrZero(column) ==
    IF column = <<>> \/ column[1] = R(0) THEN R(0) ELSE column[1]

\* .order('year', { ascending: false }).limit(1).single(): <<>> when no row
latestAnnualRow(annual) ==
    IF annual = <<>> THEN <<>>
    ELSE <<annual[CHOOSE i \in DOMAIN annual :
                    \A j \in DOMAIN annual : annual[j].year <= annual[i].year]>>

\* .order('year', desc).order('month', desc).limit(3)
RECURSIVE latestMonths(_, _)
latestMonths(rows, n) ==
    IF n = 0 \/ rows = <<>> THEN <<>>
    ELSE LET i == CHOOSE i \in DOMAIN rows : \A j \in DOMAIN rows :
                    rows[j].year * 12 + rows[j].month <= rows[i].year * 12 + rows[i].month
         IN  <<rows[i]>> \o latestMonths(SubSeq(rows, 1, i - 1)
                                          \o SubSeq(rows, i + 1, Len(rows)), n - 1)

\* .filter((m) => m.yoy_change_pct != null).map(parseFloat)
monthlyMomentumOf(monthly) ==
    LET recentMonths == latestMonths(monthly, 3)
        kept == SelectSeq(recentMonths, LAMBDA m : m.yoy_change_pct # <<>>)
    IN  [i \in DOMAIN kept |-> kept[i].yoy_change_pct[1]]

\* the rows of the latest snapshot_date of country_snapshots
latestCountryRows(countries) ==
    SelectSeq(countries, LAMBDA c :
        \A j \in DOMAIN countries : countries[j].snapshot_date <= c.snapshot_date)

UsNames == {"United States", "USA", "US"}

\* usConcentrationPct: 70 unless the latest snapshot has a United States row
usConcentrationPctOf(countries) ==
    LET countryRows == latestCountryRows(countries)
        us == SelectSeq(countryRows, LAMBDA c : c.country_name \in UsNames)
    IN  IF us = <<>> THEN R(70) ELSE us[1].pct_of_total

\* youthPct = under18 + age18_29 of the latest overall_stats_snapshots row
youthPctOf(overall) ==
    IF overall = <<>> THEN R(0)
    ELSE LET overallRow == overall[CHOOSE i \in DOMAIN overall : \A j \in DOMAIN overall :
                                overall[j].snapshot_date <= overall[i].snapshot_date]
         IN  RAdd(numericOrZero(overallRow.age_under_18_pct),
                  numericOrZero(overallRow.age_18_29_pct))

\* the column of the latest annual row, 0 when there is no row
annualColumn(annual, column) ==
    IF latestAnnualRow(annual) = <<>> THEN R(0)
    ELSE numericOrZero(latestAnnualRow(annual)[1][column])

\* step 5 of runHealthScorer: the HealthScoreInput
scorerInput(snap) ==
    [tournament_yoy_pct   |-> annualColumn(snap.annual, "tournament_yoy_pct"),
     entry_yoy_pct        |-> annualColumn(snap.annual, "entry_yoy_pct"),
     avg_attendance       |-> annualColumn(snap.annual, "avg_attendance"),
     retention_rate       |-> annualColumn(snap.annual, "retention_rate"),
     monthly_momentum     |-> monthlyMomentumOf(snap.monthly),
     us_concentration_pct |-> usConcentrationPctOf(snap.countries),
     country_count        |-> R(Len(latestCountryRows(snap.countries))),
     youth_pct            |-> youthPctOf(snap.overall)]

\* Object.fromEntries(Object.entries(breakpoints).map(([k, v]) => [k, v.points]))
breakpointsForCompute(breakpoints) ==
    IF breakpoints = Undefined THEN Undefined
    ELSE [k \in DOMAIN breakpoints |-> breakpoints[k].points]

\* .eq('is_active', true).single(): <<>> unless exactly one version is active
activeMethodology(versionRows) ==
    LET active == {v \in DOMAIN versionRows : versionRows[v].is_active}
    IN  IF Cardinality(active) = 1 THEN <<CHOOSE v \in active : TRUE>> ELSE <<>>

\* step 6 of runHealthScorer: the score under the active methodology
activeScore(input, versionRows) ==
    LET methodology == activeMethodology(versionRows) IN
    computeHealthScore(input,
        IF methodology = <<>> THEN 1 ELSE methodology[1],
        IF methodology = <<>> THEN Undefined ELSE versionRows[methodology[1]].weights,
        IF methodology = <<>> THEN Undefined
        ELSE breakpointsForCompute(versionRows[methodology[1]].breakpoints))

\* step 8 of runHealthScorer: the shadow score of one version
shadowScoreOf(input, versionRows, v) ==
    computeHealthScore(input, v, versionRows[v].weights,
                       breakpointsForCompute(versionRows[v].breakpoints))

healthRow(date, result) ==
    [score_date |-> date, composite_score |-> result.composite_score, band |-> result.band,
     components |-> result.components, sensitivity |-> result.sensitivity,
     methodology_version |-> result.methodology_version]

shadowRow(date, v, shadowResult) ==
    [score_date |-> date, methodology_version |-> v,
     composite_score |-> shadowResult.composite_score,
     component_scores |-> shadowResult.components]

\* { onConflict: 'score_date' }
healthConflictKey == {"score_date"}

\* a conflict target of the date alone
shadowConflictKeyDateOnly == {"score_date"}

\* { onConflict: 'score_date,methodology_version' }
shadowConflictKey == {"score_date", "methodology_version"}

\* { onConflict: 'forecast_date,target_year' }
forecastConflictKey == {"forecast_date", "target_year"}

\* upsert(row, { onConflict }): the row replaces the rows with its conflict key
Upsert(table, row, onConflict) ==
    LET kept == {r \in DOMAIN table : \E c \in onConflict : r[c] # row[c]}
    IN  [r \in kept |-> table[r]] (+) SetToBag({row})

\* steps 1 and 2 of runForecaster: the rows as AnnualData and MonthlyData
annualDataOf(annual) ==
    [i \in DOMAIN annual |-> [year |-> annual[i].year, tournaments |-> annual[i].tournaments,
                              entries |-> annual[i].player_entries]]
monthlyDataOf(monthly) ==
    [i \in DOMAIN monthly |-> [year |-> monthly[i].year, month |-> monthly[i].month,
                               event_count |-> monthly[i].event_count]]

\* step 3 of runForecaster: ytdEntries from the target year's annual row,
\* else from the latest overall stats row, else 0
ytdEntriesOf(snap, targetYear) ==
    LET annualData == annualDataOf(snap.annual)
        own == SelectSeq(annualData, LAMBDA r : r.year = targetYear)
        overallRow == IF snap.overall = <<>> THEN <<>>
                      ELSE <<snap.overall[CHOOSE i \in DOMAIN snap.overall :
                                \A j \in DOMAIN snap.overall :
                                    snap.overall[j].snapshot_date
                                        <= snap.overall[i].snapshot_date]>>
    IN  IF own # <<>> THEN own[1].entries
        ELSE IF overallRow # <<>> /\ overallRow[1].ytd_player_entries # <<>>
        THEN overallRow[1].ytd_player_entries[1]
        ELSE 0

\* step 7 of runForecaster: the row handed to upsert
forecastRecord(date, targetYear, f, trendTournaments, trendEntries) ==
    [forecast_date |-> date, target_year |-> targetYear,
     months_of_data |-> f.months_of_data,
     projected_tournaments |-> f.projected_tournaments,
     projected_entries |-> f.projected_entries,
     ci_68_low_tournaments |-> f.ci_68_low_tournaments,
     ci_68_high_tournaments |-> f.ci_68_high_tournaments,
     ci_95_low_tournaments |-> f.ci_95_low_tournaments,
     ci_95_high_tournaments |-> f.ci_95_high_tournaments,
     ci_68_low_entries |-> f.ci_68_low_entries,
     ci_68_high_entries |-> f.ci_68_high_entries,
     ci_95_low_entries |-> f.ci_95_low_entries,
     ci_95_high_entries |-> f.ci_95_high_entries,
     method |-> f.method,
     trend_reference |-> [tournaments |-> trendTournaments, entries |-> trendEntries]]

\* steps 3 to 5 of runForecaster: the forecast of the target year
forecastOf(annualData, monthlyData, ytdEntries, targetYear) ==
    LET targetYearMonths == SelectSeq(monthlyData, LAMBDA m : m.year = targetYear)
    IN  computeForecast(
            SumInts([i \in DOMAIN targetYearMonths |-> targetYearMonths[i].event_count]),
            ytdEntries, Len(targetYearMonths),
            computeMonthlyWeights(annualData, monthlyData, REFERENCE_YEARS),
            annualData, monthlyData, targetYear)

\* steps 1 to 7 of runForecaster: the row computed from the tables
forecastRow(snap, date, targetYear) ==
    forecastRecord(date, targetYear,
        forecastOf(annualDataOf(snap.annual), monthlyDataOf(snap.monthly),
                   ytdEntriesOf(snap, targetYear), targetYear),
        computeTrendLine(annualDataOf(snap.annual), "tournaments", targetYear),
        computeTrendLine(annualDataOf(snap.annual), "entries", targetYear))

----------------------------------------------------------------------------
(* Runs of the two jobs by two processes over MaxDays days, on collected   *)
(* tables with and without a row of the current, partial year.             *)

MaxDays == 2
Procs == {"cron", "manual"}

AnnualSnapshot(year, tournaments, entries, tyoy, eyoy, attendance, retention) ==
    [year |-> year, tournaments |-> tournaments, player_entries |-> entries,
     tournament_yoy_pct |-> tyoy, entry_yoy_pct |-> eyoy,
     avg_attendance |-> attendance, retention_rate |-> retention]

MonthlyCount(year, month, count, yoy) ==
    [year |-> year, month |-> month, event_count |-> count, yoy_change_pct |-> yoy]

CompleteYears ==
    <<AnnualSnapshot(2024, 4, 20, <<R(5)>>, <<R(5)>>, <<R(20)>>, <<R(40)>>),
      AnnualSnapshot(2025, 4, 24, <<R(10)>>, <<R(10)>>, <<R(23)>>, <<R(42)>>)>>
PartialYear ==
    <<AnnualSnapshot(CurrentYear, 1, 5, <<R(-94)>>, <<R(-90)>>, <<R(5)>>, <<>>)>>

MonthlyRows ==
    <<MonthlyCount(2024, 1, 1, <<>>), MonthlyCount(2024, 2, 1, <<>>),
      MonthlyCount(2025, 1, 2, <<R(100)>>), MonthlyCount(2025, 2, 1, <<R(0)>>),
      MonthlyCount(2025, 12, 1, <<>>),
      MonthlyCount(CurrentYear, 1, 1, <<R(-50)>>), MonthlyCount(CurrentYear, 2, 2, <<R(100)>>)>>

SnapshotChoices ==
    {[annual |-> <<>>, monthly |-> <<>>, countries |-> <<>>, overall |-> <<>>],
     [annual |-> CompleteYears, monthly |-> MonthlyRows,
      countries |-> <<[snapshot_date |-> 1, country_name |-> "United States",
                       pct_of_total |-> R(90)],
                      [snapshot_date |-> 2, country_name |-> "United States",
                       pct_of_total |-> R(60)],
                      [snapshot_date |-> 2, country_name |-> "Canada",
                       pct_of_total |-> R(10)]>>,
      overall |-> <<[snapshot_date |-> 1, age_under_18_pct |-> <<R(3)>>,
                     age_18_29_pct |-> <<R(10)>>, ytd_player_entries |-> <<7>>]>>],
     [annual |-> CompleteYears \o PartialYear, monthly |-> MonthlyRows,
      countries |-> <<[snapshot_date |-> 1, country_name |-> "Canada",
                       pct_of_total |-> R(10)]>>,
      overall |-> <<[snapshot_date |-> 1, age_under_18_pct |-> <<>>,
                     age_18_29_pct |-> <<R(10)>>, ytd_player_entries |-> <<>>]>>]}

\* What the jobs compute from each content of the collected tables and the
\* versions of VersionRows, evaluated once per content.
\* The computations of the jobs, tabulated over the tables of the model
\* no version active: version 1 carries the overridden weights
VersionRowsNoneActive ==
    [v \in VersionNumbers |-> [VersionRows[3 - v] EXCEPT !.is_active = FALSE]]

\* both versions active
VersionRowsAllActive ==
    [v \in VersionNumbers |-> [VersionRows[v] EXCEPT !.is_active = TRUE]]

VersionTables == {VersionRows, VersionRowsNoneActive, VersionRowsAllActive}
ScorerInputs == [s \in SnapshotChoices |-> scorerInput(s)]
ActiveScores ==
    [s \in SnapshotChoices, t \in VersionTables |-> activeScore(ScorerInputs[s], t)]
ShadowScores ==
    [s \in SnapshotChoices, t \in VersionTables |->
        [v \in DOMAIN t |-> shadowScoreOf(ScorerInputs[s], t, v)]]
ForecastRows == [s \in SnapshotChoices |-> forecastRow(s, 0, CurrentYear)]

readScorerInput == ScorerInputs[snapshots]
computeActiveScore == ActiveScores[snapshots, versions]
computeShadowScore(v) == ShadowScores[snapshots, versions][v]
computeForecastRow(date) == [ForecastRows[snapshots] EXCEPT !.forecast_date = date]

NoJob == [pc |-> "idle", kind |-> "none", today |-> 0, input |-> <<>>, result |-> <<>>,
          pending |-> {}]

JobIdle ==
    /\ today = 0
    /\ snapshots = <<>>
    /\ jobs = <<>>
    /\ healthScores = EmptyBag
    /\ shadowTable = EmptyBag
    /\ forecasts = EmptyBag

JobInit ==
    /\ today = 1
    /\ snapshots \in SnapshotChoices
    /\ jobs = [p \in Procs |-> NoJob]
    /\ healthScores = EmptyBag
    /\ shadowTable = EmptyBag
    /\ forecasts = EmptyBag

\* the methodology_versions table as the jobs find it
JobTables ==
    /\ observations = <<>>
    /\ versions \in VersionTables
    /\ shadowScores = <<>>
    /\ calResponse = NoResponse

\* runHealthScorer up to the first write
StartScorer(p) ==
    /\ jobs[p].pc \in {"idle", "done"}
    /\ jobs' = [jobs EXCEPT ![p] =
                  [pc |-> "upsertHealth", kind |-> "scorer", today |-> today,
                   input |-> readScorerInput,
                   result |-> computeActiveScore,
                   pending |-> {}]]
    /\ UNCHANGED <<today, snapshots, healthScores, shadowTable, forecasts,
                   hsVars, ipVars, fcVars, tlVars, calVars, cronVars>>

\* step 7: upsert into health_scores, then the read of all versions
UpsertHealthScore(p) ==
    /\ jobs[p].pc = "upsertHealth"
    /\ healthScores' = Upsert(healthScores, healthRow(jobs[p].today, jobs[p].result),
                              healthConflictKey)
    /\ jobs' = [jobs EXCEPT ![p].pending = DOMAIN versions,
                            ![p].pc = IF DOMAIN versions = {} THEN "done" ELSE "shadow"]
    /\ UNCHANGED <<today, snapshots, shadowTable, forecasts,
                   hsVars, ipVars, fcVars, tlVars, calVars, cronVars>>

\* step 8: one pass of the loop over allVersions, which the query returns in
\* no particular order
UpsertShadow(p, v) ==
    /\ jobs[p].pc = "shadow"
    /\ v \in jobs[p].pending
    /\ shadowTable' = Upsert(shadowTable,
                             shadowRow(jobs[p].today, v, computeShadowScore(v)),
                             shadowConflictKey)
    /\ jobs' = [jobs EXCEPT ![p].pending = @ \ {v},
                            ![p].pc = IF jobs[p].pending = {v} THEN "done" ELSE "shadow"]
    /\ UNCHANGED <<today, snapshots, healthScores, forecasts,
                   hsVars, ipVars, fcVars, tlVars, calVars, cronVars>>

\* runForecaster up to the write; it returns early without annual data
StartForecaster(p) ==
    /\ jobs[p].pc \in {"idle", "done"}
    /\ jobs' = [jobs EXCEPT ![p] =
                  IF snapshots.annual = <<>>
                  THEN [NoJob EXCEPT !.pc = "done", !.kind = "forecaster", !.today = today]
                  ELSE [pc |-> "upsertForecast", kind |-> "forecaster", today |-> today,
                        input |-> <<>>,
                        result |-> computeForecastRow(today),
                        pending |-> {}]]
    /\ UNCHANGED <<today, snapshots, healthScores, shadowTable, forecasts,
                   hsVars, ipVars, fcVars, tlVars, calVars, cronVars>>

\* step 7 of runForecaster
UpsertForecast(p) ==
    /\ jobs[p].pc = "upsertForecast"
    /\ forecasts' = Upsert(forecasts, jobs[p].result, forecastConflictKey)
    /\ jobs' = [jobs EXCEPT ![p].pc = "done"]
    /\ UNCHANGED <<today, snapshots, healthScores, shadowTable,
                   hsVars, ipVars, fcVars, tlVars, calVars, cronVars>>

\* midnight
NextDay ==
    /\ today < MaxDays
    /\ today' = today + 1
    /\ UNCHANGED <<snapshots, jobs, healthScores, shadowTable, forecasts,
                   hsVars, ipVars, fcVars, tlVars, calVars, cronVars>>

----------------------------------------------------------------------------
(* Specifications.                                                         *)

Init == HsInit /\ IpIdle /\ FcIdle /\ TlIdle /\ CalIdle /\ JobIdle /\ CronIdle
Next == ComputeHealthScore
Spec == Init /\ [][Next]_vars

InitIP == HsIdle /\ IpInit /\ FcIdle /\ TlIdle /\ CalIdle /\ JobIdle /\ CronIdle
NextIP == \E v \in IpValues : Interpolate(v)
SpecIP == InitIP /\ [][NextIP]_vars

InitFC == HsIdle /\ IpIdle /\ FcInit /\ TlIdle /\ CalIdle /\ JobIdle /\ CronIdle
NextFC ==
    \/ ComputeMonthlyWeights
    \/ \E w \in SuppliedWeights : SupplyWeights(w)
    \/ \E yt \in YtdTournaments, ye \in YtdEntries,
          cm \in 1..MaxCompletedMonths, ty \in FcTargetYears :
            ComputeForecast(yt, ye, cm, ty)
SpecFC == InitFC /\ [][NextFC]_vars

InitMW == HsIdle /\ IpIdle /\ MwInit /\ TlIdle /\ CalIdle /\ JobIdle /\ CronIdle
NextMW == ComputeMonthlyWeights
SpecMW == InitMW /\ [][NextMW]_vars

InitJobs == HsIdle /\ IpIdle /\ FcIdle /\ TlIdle /\ JobTables /\ JobInit /\ CronIdle
NextJobs ==
    \/ \E p \in Procs : StartScorer(p)
    \/ \E p \in Procs : UpsertHealthScore(p)
    \/ \E p \in Procs, v \in VersionNumbers : UpsertShadow(p, v)
    \/ \E p \in Procs : StartForecaster(p)
    \/ \E p \in Procs : UpsertForecast(p)
    \/ NextDay
SpecJobs == InitJobs /\ [][NextJobs]_vars

InitTL == HsIdle /\ IpIdle /\ FcIdle /\ TlInit /\ CalIdle /\ JobIdle /\ CronIdle
NextTL == \E metric \in TlMetrics, ty \in FcTargetYears : ComputeTrendLine(metric, ty)
SpecTL == InitTL /\ [][NextTL]_vars

InitCal == HsIdle /\ IpIdle /\ FcIdle /\ TlIdle /\ CalInit /\ JobIdle /\ CronIdle
NextCal ==
    \/ \E h \in AuthHeaders, body \in ObservationBodies : PostObservation(h, body)
    \/ \E h \in AuthHeaders : Calibrate(h)
SpecCal == InitCal /\ [][NextCal]_vars

InitCron == HsIdle /\ IpIdle /\ FcIdle /\ TlIdle /\ CronCalInit /\ JobIdle /\ CronInit
NextCron ==
    \/ \E r \in CronRoutes, h \in AuthHeaders, o \in DbOutcomes : CronRequest(r, h, o)
    \/ \E r \in CronRoutes, o \in CollectorOutcomes : RunCollector(r, o)
    \/ \E r \in CronRoutes, o \in DbOutcomes : UpdateSuccess(r, o)
    \/ \E r \in CronRoutes, o \in DbOutcomes : CatchError(r, o)
    \/ \E h \in AuthHeaders, body \in CronBodies : PostObservation(h, body)
    \/ \E h \in AuthHeaders : Calibrate(h)
SpecCron == InitCron /\ [][NextCron]_vars

----------------------------------------------------------------------------
(* Properties of computeHealthScore (specification Spec).                  *)

HsDone == hsPc = "done"
HsDefaults == hsWeights = Undefined /\ hsBreakpoints = Undefined
InRange0To100(x) == ~IsNaN(x) /\ RLe(R(0), x) /\ RLe(x, R(100))

\* C1: for finite inputs (negative, above 100, empty or non-empty momentum
\* list) the composite_score computed with the default weights and
\* breakpoints is a number c with 0 <= c <= 100.
C1_CompositeInRange ==
    (HsDone /\ HsDefaults) => InRange0To100(hsResult.composite_score)

\* A default-configuration call with a negative growth input, an attendance
\* above 100, a negative country count and a non-empty momentum list.
C1_Witness ==
    /\ HsDone /\ HsDefaults
    /\ hsInput.tournament_yoy_pct = R(-50)
    /\ hsInput.avg_attendance = R(200)
    /\ hsInput.country_count = R(-1000)
    /\ Len(hsInput.monthly_momentum) = 3
    /\ RGt(hsResult.composite_score, R(0))

WeightSum(res) ==
    ReduceKeys(KeysOf(res.components), [k \in DOMAIN res.components |-> res.components[k].weight])

AllSinglePointAt100 ==
    \A k \in DOMAIN hsResult.components :
        /\ k \in DOMAIN hsBreakpoints
        /\ Len(hsBreakpoints[k]) = 1
        /\ hsBreakpoints[k][1][2] = R(100)

\* C4 as stated: weights summing to 1 and single-point breakpoints [[v,100]]
\* for every component give composite_score = 100 for every raw input.
C4_Original ==
    (HsDone /\ WeightSum(hsResult) = R(1) /\ AllSinglePointAt100)
        => hsResult.composite_score = R(100)

\* C4 amended: with weights summing to 1 and single-point breakpoints
\* [[v,100]] for every component, composite_score = 100 for every raw input
\* whose country_count * 3.33 is at least 100, and for every raw input when
\* the diversity weight is 0.
C4_SinglePointComposite ==
    (/\ HsDone /\ WeightSum(hsResult) = R(1) /\ AllSinglePointAt100
     /\ \/ RGe(RMul(hsInput.country_count, Frac(333, 100)), R(100))
        \/ hsResult.components.diversity.weight = R(0))
        => hsResult.composite_score = R(100)

C4_Witness ==
    /\ HsDone /\ WeightSum(hsResult) = R(1) /\ AllSinglePointAt100
    /\ hsInput.country_count = R(31)
    /\ hsResult.components.diversity.weight = Frac(1, 2)
    /\ hsInput.tournament_yoy_pct = R(-50)
    /\ hsInput.avg_attendance = R(200)
    /\ hsResult.composite_score = R(100)

SensitivitySum(res) == ReduceKeys(KeysOf(res.sensitivity), res.sensitivity)

\* C5: when the total sensitivity delta is positive the sensitivity values
\* sum to 100 within 0.005 per key; when every weight is 0 every
\* sensitivity value is 0.
C5_SensitivitySum ==
    HsDone =>
        /\ RGt(hsResult.total_delta, R(0)) =>
              RLe(MathAbs(RSub(SensitivitySum(hsResult), R(100))),
                  RMul(Frac(5, 1000), R(Cardinality(DOMAIN hsResult.sensitivity))))
        /\ (\A k \in DOMAIN hsResult.components : hsResult.components[k].weight = R(0)) =>
              \A k \in DOMAIN hsResult.sensitivity : hsResult.sensitivity[k] = R(0)

\* A call whose sensitivities were rounded: positive total delta and a sum
\* that is not exactly 100.
C5_Witness ==
    /\ HsDone
    /\ RGt(hsResult.total_delta, R(0))
    /\ SensitivitySum(hsResult) # R(100)

ScenarioInput ==
    [tournament_yoy_pct |-> R(10), entry_yoy_pct |-> R(10), avg_attendance |-> R(23),
     retention_rate |-> R(42), monthly_momentum |-> <<R(5), R(5), R(5)>>,
     us_concentration_pct |-> R(70), country_count |-> R(30), youth_pct |-> R(13)]

ScenarioComposite(growth, attendance, retention, momentum, diversity, youth) ==
    round2(SumSeq(<<RMul(growth, Frac(25, 100)), RMul(attendance, Frac(20, 100)),
                    RMul(retention, Frac(20, 100)), RMul(momentum, Frac(15, 100)),
                    RMul(diversity, Frac(10, 100)), RMul(youth, Frac(10, 100))>>))

ScenarioScores(growth) ==
    /\ hsResult.components.growth.score = growth
    /\ hsResult.components.attendance.score = R(85)
    /\ hsResult.components.retention.score = R(85)
    /\ hsResult.components.momentum.score = Frac(6667, 100)
    /\ hsResult.components.youth.score = R(50)
    /\ hsResult.composite_score =
          ScenarioComposite(growth, R(85), R(85), Frac(6667, 100),
                            hsResult.components.diversity.score, R(50))

\* C8 as stated: the scenario input scores growth 50, attendance 85,
\* retention 85, momentum 66.67, youth 50 and the composite is the weighted
\* sum of these and the diversity score, rounded to 2 decimals.
C8_Original ==
    (HsDone /\ HsDefaults /\ hsInput = ScenarioInput) => ScenarioScores(R(50))

\* C8 amended: the scenario input scores growth 75 (raw growth 10 lies
\* halfway between the breakpoints [0,50] and [20,100]), attendance 85,
\* retention 85, momentum 66.67, youth 50, and the composite is
\* 75*0.25 + 85*0.20 + 85*0.20 + 66.67*0.15 + diversity*0.10 + 50*0.10
\* rounded to 2 decimals.
C8_ScenarioScores ==
    (HsDone /\ HsDefaults /\ hsInput = ScenarioInput) => ScenarioScores(R(75))

C8_Witness ==
    /\ HsDone /\ HsDefaults /\ hsInput = ScenarioInput
    /\ hsResult.composite_score = Frac(7425, 100)
    /\ hsResult.components.diversity.score = Frac(6497, 100)

BandOfSum(S) ==
    IF RGe(S, R(80)) THEN "thriving"
    ELSE IF RGe(S, R(65)) /\ RLt(S, R(80)) THEN "healthy"
    ELSE IF RGe(S, R(50)) /\ RLt(S, R(65)) THEN "stable"
    ELSE IF RGe(S, R(35)) /\ RLt(S, R(50)) THEN "concerning"
    ELSE IF RLt(S, R(35)) THEN "critical"
    ELSE "none"

BandThresholds == {R(80), R(65), R(50), R(35)}

\* round2 lifted the reported score onto a threshold that the sum is below.
RoundedUpToThreshold ==
    /\ hsResult.composite_score \in BandThresholds
    /\ RLt(hsResult.raw_composite, hsResult.composite_score)

C13_BandFromUnclampedSum ==
    HsDone => hsResult.band = BandOfSum(hsResult.raw_composite)

ExtraWeightKey == \E k \in DOMAIN hsResult.components : k \notin DOMAIN DEFAULT_WEIGHTS

\* C17 as stated: the country-count sub-score of the diversity blend is 100
\* for every country_count >= 30 and below 100 for every country_count < 30.
C17_Original ==
    HsDone =>
        /\ RGe(hsInput.country_count, R(30)) => hsResult.country_score = R(100)
        /\ RLt(hsInput.country_count, R(30)) => RLt(hsResult.country_score, R(100))

\* C17 amended: the country-count sub-score is 100 for every
\* country_count >= 31 and below 100 for every country_count <= 30 (99.9 at
\* 30 countries).
C17_CountryScoreSaturation ==
    HsDone =>
        /\ RGe(hsInput.country_count, R(31)) => hsResult.country_score = R(100)
        /\ RLe(hsInput.country_count, R(30)) => RLt(hsResult.country_score, R(100))
        /\ hsInput.country_count = R(30) => hsResult.country_score = Frac(999, 10)

\* Thirty countries and United States share 70 under the defaults: the blend
\* is 0.7 * 50 + 0.3 * 99.9 = 64.97.
C17_Witness ==
    /\ HsDone /\ HsDefaults
    /\ hsInput.country_count = R(30)
    /\ hsInput.us_concentration_pct = R(70)
    /\ hsResult.country_score = Frac(999, 10)
    /\ hsResult.components.diversity.raw_value = Frac(6497, 100)

\* C19: when customWeights has a key outside the six named components the
\* result still has a numeric composite_score in [0,100] rounded to 2
\* decimals, a band, and a component and a sensitivity entry for every key
\* of the merged weight map.
C19_ExtraKeyComposite ==
    (HsDone /\ ExtraWeightKey) =>
        /\ InRange0To100(hsResult.composite_score)
        /\ round2(hsResult.composite_score) = hsResult.composite_score
        /\ hsResult.band \in validBands
        /\ DOMAIN hsResult.components = DOMAIN DEFAULT_WEIGHTS \cup DOMAIN hsWeights
        /\ DOMAIN hsResult.sensitivity = DOMAIN DEFAULT_WEIGHTS \cup DOMAIN hsWeights

----------------------------------------------------------------------------
(* Properties of interpolate (specification SpecIP).                       *)

SortedByInput(bp) == \A i \in 1..(Len(bp) - 1) : RLe(bp[i][1], bp[i + 1][1])
StrictlySortedByInput(bp) == \A i \in 1..(Len(bp) - 1) : RLt(bp[i][1], bp[i + 1][1])
OutputsNonDecreasing(bp) == \A i \in 1..(Len(bp) - 1) : RLe(bp[i][2], bp[i + 1][2])

IpTwoCalls == Len(ipCalls) = 2
IpX(i) == ipCalls[i][1]
IpY(i) == ipCalls[i][2]

IpMonotone == RLe(IpX(1), IpX(2)) => RLe(IpY(1), IpY(2))
IpConstantBelow ==
    (RLe(IpX(1), ipBp[1][1]) /\ RLe(IpX(2), ipBp[1][1])) => IpY(1) = IpY(2)
IpConstantAtOrAbove ==
    (RGe(IpX(1), ipBp[Len(ipBp)][1]) /\ RGe(IpX(2), ipBp[Len(ipBp)][1])) => IpY(1) = IpY(2)
IpConstantAbove ==
    (RGt(IpX(1), ipBp[Len(ipBp)][1]) /\ RGt(IpX(2), ipBp[Len(ipBp)][1])) => IpY(1) = IpY(2)

\* the first pair of the list that brackets x has equal inputs
ZeroGapUsed(x, bp) ==
    /\ RGt(x, bp[1][1]) /\ RLt(x, bp[Len(bp)][1])
    /\ \E i \in 1..(Len(bp) - 1) :
          /\ RLe(bp[i][1], x) /\ RLe(x, bp[i + 1][1])
          /\ \A j \in 1..(i - 1) : ~(RLe(bp[j][1], x) /\ RLe(x, bp[j + 1][1]))
          /\ bp[i][1] = bp[i + 1][1]

\* C25: for every finite value and every non-empty breakpoint list with
\* finite entries, sorted or not, with or without repeated inputs,
\* interpolate returns a number in [0,100]; no call divides by a zero input
\* gap.
C25_InterpolateTotal ==
    \A i \in DOMAIN ipCalls :
        Len(ipBp) > 0 => (InRange0To100(IpY(i)) /\ ~ZeroGapUsed(IpX(i), ipBp))

\* Two calls on a four-point list with a repeated input, the first strictly
\* inside the list at the repeated input: it is answered from the pair that
\* precedes the repeated one.
C25_Witness ==
    /\ Len(ipCalls) = 2
    /\ Len(ipBp) = 4
    /\ ipBp[2][1] = ipBp[3][1] /\ ipBp[2][1] = IpX(1)
    /\ RGt(IpX(1), ipBp[1][1]) /\ RLt(IpX(1), ipBp[4][1])
    /\ RGt(IpY(1), R(0)) /\ RLt(IpY(1), R(100))

\* C6 as stated: on a list sorted ascending by input with non-decreasing
\* outputs interpolate is non-decreasing in x, constant for x at or below
\* the first input and constant for x at or above the last input.
C6_Original ==
    (IpTwoCalls /\ Len(ipBp) > 0 /\ SortedByInput(ipBp) /\ OutputsNonDecreasing(ipBp))
        => (IpMonotone /\ IpConstantBelow /\ IpConstantAtOrAbove)

\* C6 amended: on a list sorted ascending by input (repeated inputs allowed)
\* with non-decreasing outputs interpolate is non-decreasing in x, constant
\* for x at or below the first input and constant for x strictly above the
\* last input; it is constant for x at or above the last input when no input
\* is repeated.
C6_InterpolateMonotone ==
    (IpTwoCalls /\ Len(ipBp) > 0 /\ SortedByInput(ipBp) /\ OutputsNonDecreasing(ipBp))
        => /\ IpMonotone
           /\ IpConstantBelow
           /\ IpConstantAbove
           /\ StrictlySortedByInput(ipBp) => IpConstantAtOrAbove

\* Two calls strictly inside a three-point strictly ascending list, with
\* strictly increasing results.
C6_Witness ==
    /\ IpTwoCalls /\ Len(ipBp) = 3
    /\ StrictlySortedByInput(ipBp) /\ OutputsNonDecreasing(ipBp)
    /\ RGt(IpX(1), ipBp[1][1]) /\ RLt(IpX(1), IpX(2)) /\ RLt(IpX(2), ipBp[3][1])
    /\ RLt(IpY(1), IpY(2))

----------------------------------------------------------------------------
(* Properties of computeForecast (specification SpecFC).                   *)

FcDone == fcPc = "done"
CumulativeTournamentWeight ==
    SumSeq(SubSeq(fcWeights.tournament_weights, 1, fcArgs.completedMonths))
CumulativeEntryWeight ==
    SumSeq(SubSeq(fcWeights.entry_weights, 1, fcArgs.completedMonths))

ForecastNumbers ==
    <<forecast.projected_tournaments, forecast.projected_entries,
      forecast.ci_68_low_tournaments, forecast.ci_68_high_tournaments,
      forecast.ci_95_low_tournaments, forecast.ci_95_high_tournaments,
      forecast.ci_68_low_entries, forecast.ci_68_high_entries,
      forecast.ci_95_low_entries, forecast.ci_95_high_entries>>

AllZeroResult ==
    /\ \A i \in DOMAIN ForecastNumbers : ForecastNumbers[i] = R(0)
    /\ forecast.trend_reference = <<>>
    /\ forecast.target_year = fcArgs.targetYear
    /\ forecast.months_of_data = fcArgs.completedMonths

\* C2: computeForecast returns the all-zero result (both projections and
\* the eight bounds 0, trend_reference null, target_year and months_of_data
\* echoed) whenever completedMonths < 2 or a cumulative weight of the first
\* completedMonths months is below 0.001, whatever the YTD values and the
\* history are.
C2_SuppressedForecast ==
    (/\ FcDone
     /\ \/ fcArgs.completedMonths < 2
        \/ RLt(CumulativeTournamentWeight, Frac(1, 1000))
        \/ RLt(CumulativeEntryWeight, Frac(1, 1000)))
        => AllZeroResult

\* Two completed months, a positive YTD and a tournament weight that is not
\* below 0.001: only the entry weight (positive, below 0.001) suppresses.
C2_Witness ==
    /\ FcDone /\ AllZeroResult
    /\ fcArgs.completedMonths = 2
    /\ fcArgs.ytdTournaments > 0
    /\ RGe(CumulativeTournamentWeight, Frac(1, 1000))
    /\ RGt(CumulativeEntryWeight, R(0))
    /\ RLt(CumulativeEntryWeight, Frac(1, 1000))

\* Both reference years carry data: an annual record with a non-zero
\* tournament total and a non-zero January-February count.
TwoReferenceYearsPresent ==
    \A i \in DOMAIN FcYears :
        /\ buildAnnualLookup(fcAnnual, FcYears[i]) # <<>>
        /\ buildAnnualLookup(fcAnnual, FcYears[i])[1].tournaments # 0
        /\ buildMonthlyLookup(fcMonthly, FcYears[i]) # <<>>
        /\ buildMonthlyLookup(fcMonthly, FcYears[i])[1][1]
             + buildMonthlyLookup(fcMonthly, FcYears[i])[1][2] # 0

C3_Case ==
    /\ FcDone
    /\ fcArgs.weightsFrom = "weights"
    /\ fcArgs.completedMonths = 2
    /\ fcArgs.ytdTournaments > 0
    /\ Len(fcAnnual) = 2
    /\ TwoReferenceYearsPresent

TournamentBandsBracket ==
    /\ RLe(forecast.ci_95_low_tournaments, forecast.ci_68_low_tournaments)
    /\ RLe(forecast.ci_68_low_tournaments, forecast.projected_tournaments)
    /\ RLe(forecast.projected_tournaments, forecast.ci_68_high_tournaments)
    /\ RLe(forecast.ci_68_high_tournaments, forecast.ci_95_high_tournaments)

\* C3 as stated: with two completed months, a positive YTD, weights from
\* exactly two reference years with non-zero January-February counts that
\* are the only back-test years, projected_tournaments is non-zero and
\* ci_95_low <= ci_68_low <= projected <= ci_68_high <= ci_95_high.
C3_Original ==
    C3_Case => (forecast.projected_tournaments # R(0) /\ TournamentBandsBracket)

\* C3 amended: in that case the bands bracket the projection,
\* ci_95_low <= ci_68_low <= projected <= ci_68_high <= ci_95_high, and
\* projected_tournaments is non-zero provided the forecast is not suppressed
\* (both cumulative weights are at least 0.001) and ytdTournaments is at
\* least half the cumulative tournament weight.
C3_TwoYearForecast ==
    C3_Case =>
        /\ TournamentBandsBracket
        /\ (/\ RGe(CumulativeTournamentWeight, Frac(1, 1000))
            /\ RGe(CumulativeEntryWeight, Frac(1, 1000))
            /\ RGe(R(2 * fcArgs.ytdTournaments), CumulativeTournamentWeight))
              => forecast.projected_tournaments # R(0)

\* A forecast from two years with different seasonal shares: the four bounds
\* and the projection are pairwise different.
C3_Witness ==
    /\ C3_Case
    /\ RLt(forecast.ci_95_low_tournaments, forecast.ci_68_low_tournaments)
    /\ RLt(forecast.ci_68_low_tournaments, forecast.projected_tournaments)
    /\ RLt(forecast.projected_tournaments, forecast.ci_68_high_tournaments)
    /\ RLt(forecast.ci_68_high_tournaments, forecast.ci_95_high_tournaments)
    /\ RGt(forecast.ci_95_low_tournaments, R(0))

NumbersOf(f) ==
    <<f.projected_tournaments, f.projected_entries,
      f.ci_68_low_tournaments, f.ci_68_high_tournaments,
      f.ci_95_low_tournaments, f.ci_95_high_tournaments,
      f.ci_68_low_entries, f.ci_68_high_entries,
      f.ci_95_low_entries, f.ci_95_high_entries>>

IsExcludedYear(y) == y = 2020 \/ y = 2021 \/ y = fcArgs.targetYear
WithoutExcludedYears(data) == SelectSeq(data, LAMBDA d : ~IsExcludedYear(d.year))

\* The same call on the data without any record of 2020, 2021 and the
\* target year.
ForecastWithoutExcludedYears ==
    computeForecast(fcArgs.ytdTournaments, fcArgs.ytdEntries, fcArgs.completedMonths,
                    fcWeights, WithoutExcludedYears(fcAnnual),
                    WithoutExcludedYears(fcMonthly), fcArgs.targetYear)

\* C16: the projections and the eight interval bounds do not depend on the
\* annual and monthly records of 2020, 2021 and the target year: the call
\* returns the same projected_* and ci_* values as the call on the data
\* without those records (only trend_reference may differ).
C16_ExcludedYearsIgnored ==
    FcDone => NumbersOf(forecast) = NumbersOf(ForecastWithoutExcludedYears)

\* A forecast whose bands come from two back-test ratios, on data that also
\* holds annual and monthly records of the target year, and whose trend
\* reference differs from the one without those records.
C16_Witness ==
    /\ FcDone
    /\ \E i \in DOMAIN fcAnnual : fcAnnual[i].year = fcArgs.targetYear
    /\ \E i \in DOMAIN fcMonthly : fcMonthly[i].year = fcArgs.targetYear
    /\ \E i \in DOMAIN fcAnnual : fcAnnual[i].year = 2021
    /\ RLt(forecast.ci_68_low_tournaments, forecast.projected_tournaments)
    /\ RLt(forecast.ci_68_low_entries, forecast.projected_entries)
    /\ forecast.trend_reference # ForecastWithoutExcludedYears.trend_reference

\* The years of the back-test loop, those that push a tournament ratio and
\* those that push an entry ratio.
BackTestYearSet ==
    {fcAnnual[i].year : i \in {j \in DOMAIN fcAnnual :
                                  isBackTestYear(fcAnnual[j].year, fcArgs.targetYear)}}
TournamentRatioYears ==
    {y \in BackTestYearSet :
        backTestQualifies(fcAnnual, fcMonthly, fcArgs.completedMonths, y)}
EntryRatioYears ==
    {y \in TournamentRatioYears : buildAnnualLookup(fcAnnual, y)[1].entries > 0}

NotSuppressed ==
    /\ FcDone
    /\ fcArgs.completedMonths >= 2
    /\ RGe(CumulativeTournamentWeight, Frac(1, 1000))
    /\ RGe(CumulativeEntryWeight, Frac(1, 1000))

\* the year's share of its annual total in the completed months equals the
\* cumulative tournament weight
FollowsWeights(y) ==
    RDiv(R(SumInts(FirstMonths(buildMonthlyLookup(fcMonthly, y)[1], fcArgs.completedMonths))),
         R(buildAnnualLookup(fcAnnual, y)[1].tournaments)) = CumulativeTournamentWeight

EntriesBandsBracket ==
    /\ RLe(forecast.ci_95_low_entries, forecast.ci_68_low_entries)
    /\ RLe(forecast.ci_68_low_entries, forecast.projected_entries)
    /\ RLe(forecast.projected_entries, forecast.ci_68_high_entries)
    /\ RLe(forecast.ci_68_high_entries, forecast.ci_95_high_entries)

\* C21: when every back-test year follows the seasonal weights exactly and
\* at least two back-test years have entries > 0, the entries bands bracket
\* the entries projection, ci_95_low_entries <= ci_68_low_entries <=
\* projected_entries <= ci_68_high_entries <= ci_95_high_entries, whatever
\* the years' entries-per-tournament ratio is.
C21_EntriesBandsBracket ==
    (/\ NotSuppressed
     /\ BackTestYearSet = TournamentRatioYears
     /\ \A y \in TournamentRatioYears : FollowsWeights(y)
     /\ Cardinality(EntryRatioYears) >= 2)
        => EntriesBandsBracket

BandsNested(low95, low68, high68, high95) ==
    RLe(low95, low68) /\ RLe(low68, high68) /\ RLe(high68, high95)

\* C22: in every forecast that is not suppressed, with ytdTournaments >= 0
\* and ytdEntries >= 0, the bands of both metrics are nested,
\* ci_95_low <= ci_68_low <= ci_68_high <= ci_95_high, in the back-test
\* branch and in the weight-uncertainty branch alike.
C22_BandsNested ==
    (NotSuppressed /\ fcArgs.ytdTournaments >= 0 /\ fcArgs.ytdEntries >= 0) =>
        /\ BandsNested(forecast.ci_95_low_tournaments, forecast.ci_68_low_tournaments,
                       forecast.ci_68_high_tournaments, forecast.ci_95_high_tournaments)
        /\ BandsNested(forecast.ci_95_low_entries, forecast.ci_68_low_entries,
                       forecast.ci_68_high_entries, forecast.ci_95_high_entries)

\* A forecast whose tournament bands come from two back-test ratios and
\* whose entries bands come from the weight uncertainty, all four bounds of
\* each metric different.
C22_Witness ==
    /\ NotSuppressed
    /\ Cardinality(TournamentRatioYears) >= 2
    /\ Cardinality(EntryRatioYears) < 2
    /\ RLt(forecast.ci_95_low_tournaments, forecast.ci_68_low_tournaments)
    /\ RLt(forecast.ci_68_low_tournaments, forecast.ci_68_high_tournaments)
    /\ RLt(forecast.ci_68_high_tournaments, forecast.ci_95_high_tournaments)
    /\ RLt(forecast.ci_95_low_entries, forecast.ci_68_low_entries)
    /\ RLt(forecast.ci_68_low_entries, forecast.ci_68_high_entries)
    /\ RLt(forecast.ci_68_high_entries, forecast.ci_95_high_entries)

----------------------------------------------------------------------------
(* Properties of computeMonthlyWeights (specification SpecMW).             *)

WeightsDone == fcPc = "weights"
ReferenceYearSet == {DEFAULT_REFERENCE_YEARS[i] : i \in DOMAIN DEFAULT_REFERENCE_YEARS}
HasAnnualRow(y) == \E i \in DOMAIN fcAnnual : fcAnnual[i].year = y
AnnualRow(y) == fcAnnual[CHOOSE i \in DOMAIN fcAnnual : fcAnnual[i].year = y]
HasMonthRow(y, m) ==
    \E i \in DOMAIN fcMonthly : fcMonthly[i].year = y /\ fcMonthly[i].month = m
MonthCount(y, m) ==
    IF HasMonthRow(y, m)
    THEN fcMonthly[CHOOSE i \in DOMAIN fcMonthly :
                        fcMonthly[i].year = y /\ fcMonthly[i].month = m].event_count
    ELSE 0
\* Reference years present in both datasets with a non-zero annual total.
QualifyingYears ==
    {y \in ReferenceYearSet :
        /\ HasAnnualRow(y)
        /\ \E m \in Months : HasMonthRow(y, m)
        /\ AnnualRow(y).tournaments # 0}
FractionsOf(years, m) ==
    LET ys == SetToSeq(years)
    IN  [i \in DOMAIN ys |-> Frac(MonthCount(ys[i], m), AnnualRow(ys[i]).tournaments)]

\* C14 as stated: month m's weight and standard deviation are taken over the
\* qualifying reference years that have a monthly record for month m (a year
\* without one is skipped for that month); years with a zero annual total
\* or absent from either dataset contribute to no month.
C14_Original ==
    WeightsDone =>
        \A m \in Months :
            LET years == {y \in QualifyingYears : HasMonthRow(y, m)} IN
            /\ fcWeights.tournament_weights[m] = mean(FractionsOf(years, m))
            /\ fcWeights.weight_std[m] = stddev(FractionsOf(years, m))

\* C14 amended: month m's weight and standard deviation are taken over all
\* qualifying reference years; a qualifying year without a monthly record
\* for month m counts with the fraction 0 for that month; years with a zero
\* annual total, without an annual record or without any monthly record
\* contribute to no month.
C14_MissingMonthCountsAsZero ==
    WeightsDone =>
        \A m \in Months :
            /\ fcWeights.tournament_weights[m] = mean(FractionsOf(QualifyingYears, m))
            /\ fcWeights.weight_std[m] = stddev(FractionsOf(QualifyingYears, m))

\* 2019 has a January record only, 2022 has both records with the same
\* annual total: February's weight is half of 2022's fraction and its
\* standard deviation is not 0.
C14_Witness ==
    /\ WeightsDone
    /\ QualifyingYears = {2019, 2022}
    /\ HasMonthRow(2019, 1) /\ ~HasMonthRow(2019, 2)
    /\ HasMonthRow(2022, 2) /\ MonthCount(2022, 2) # 0
    /\ fcWeights.tournament_weights[2]
          = RDiv(Frac(MonthCount(2022, 2), AnnualRow(2022).tournaments), R(2))
    /\ RGt(fcWeights.weight_std[2], R(0))

\* C15 as stated: entry_weights equals tournament_weights month by month
\* for every input.
C15_Original ==
    WeightsDone =>
        \A m \in Months : fcWeights.entry_weights[m] = fcWeights.tournament_weights[m]

EntryFractionsOf(years, m) ==
    LET ys == SetToSeq(years)
    IN  [i \in DOMAIN ys |->
            IF AnnualRow(ys[i]).entries > 0
            THEN Frac(MonthCount(ys[i], m), AnnualRow(ys[i]).tournaments)
            ELSE R(0)]

\* C15 amended: each qualifying reference year's entry fraction for a month
\* is that month's tournament event count divided by the year's annual
\* tournament total when the year's annual entries are positive, and 0
\* otherwise; entry_weights equals tournament_weights month by month when
\* every qualifying year has positive annual entries.
C15_EntryWeightsFollowTournaments ==
    WeightsDone =>
        /\ \A m \in Months :
              fcWeights.entry_weights[m] = mean(EntryFractionsOf(QualifyingYears, m))
        /\ (\A y \in QualifyingYears : AnnualRow(y).entries > 0) =>
              \A m \in Months :
                  fcWeights.entry_weights[m] = fcWeights.tournament_weights[m]

\* Two qualifying years with positive entries and different January shares.
C15_Witness ==
    /\ WeightsDone
    /\ QualifyingYears = {2019, 2022}
    /\ \A y \in QualifyingYears : AnnualRow(y).entries > 0
    /\ Frac(MonthCount(2019, 1), AnnualRow(2019).tournaments)
          # Frac(MonthCount(2022, 1), AnnualRow(2022).tournaments)
    /\ RGt(fcWeights.entry_weights[1], R(0))
    /\ fcWeights.entry_weights = fcWeights.tournament_weights

----------------------------------------------------------------------------
(* Properties of computeTrendLine (specification SpecTL).                  *)

TlDone == tlPc = "done"
TlNonAnomaly == SelectSeq(tlData, LAMBDA d : d.year # 2020 /\ d.year # 2021)
TlTwoPoints ==
    /\ TlDone
    /\ Len(TlNonAnomaly) = 2
    /\ TlNonAnomaly[1].year # TlNonAnomaly[2].year
TlValue(i) == R(TlNonAnomaly[i][tlArgs.metric])
TlLineAt(i) == RAdd(RMul(tlResult.slope, R(TlNonAnomaly[i].year)), tlResult.intercept)
TlLineThroughBoth == TlLineAt(1) = TlValue(1) /\ TlLineAt(2) = TlValue(2)

\* C7 as stated: on exactly two non-anomaly years with distinct year values
\* the returned line passes through both points and r_squared = 1, for
\* every pair of metric values.
C7_Original ==
    TlTwoPoints => (TlLineThroughBoth /\ tlResult.r_squared = R(1))

\* C7 amended: on exactly two non-anomaly years with distinct year values
\* the returned line passes through both points; r_squared = 1 when the two
\* metric values differ and r_squared = 0 when they are equal.
C7_TwoPointLine ==
    TlTwoPoints =>
        /\ TlLineThroughBoth
        /\ tlResult.r_squared = (IF TlValue(1) # TlValue(2) THEN R(1) ELSE R(0))

\* Two points three years apart with different values, listed newest first
\* next to an anomaly year: a fractional slope.
C7_Witness ==
    /\ TlTwoPoints
    /\ Len(tlData) = 3
    /\ TlNonAnomaly[1].year = 2022 /\ TlNonAnomaly[2].year = 2019
    /\ TlValue(1) # TlValue(2)
    /\ tlResult.slope = Frac(-6, 3)
    /\ tlResult.r_squared = R(1)

\* The regression of the metric on the year over a set of records with
\* pairwise different years, written with sums over the set.
TlYears == {tlData[i].year : i \in DOMAIN tlData} \ {2020, 2021}
TlFourGreatestYears == {y \in TlYears : Cardinality({z \in TlYears : z > y}) < 4}
TlFitted == {tlData[i] : i \in {j \in DOMAIN tlData : tlData[j].year \in TlFourGreatestYears}}
TlOneRecordPerYear ==
    \A i, j \in DOMAIN tlData : tlData[i].year = tlData[j].year => i = j

FitMean(S, f) == RDiv(SumOver(S, f), R(Cardinality(S)))
FitOn(S, metric, targetYear) ==
    LET x == [r \in S |-> R(r.year)]
        y == [r \in S |-> R(r[metric])]
        xMean == FitMean(S, x)
        yMean == FitMean(S, y)
        sxy == SumOver(S, [r \in S |-> RMul(RSub(x[r], xMean), RSub(y[r], yMean))])
        sxx == SumOver(S, [r \in S |-> RMul(RSub(x[r], xMean), RSub(x[r], xMean))])
        slope == RDiv(sxy, sxx)
        intercept == RSub(yMean, RMul(slope, xMean))
        ssRes == SumOver(S, [r \in S |->
                    RMul(RSub(y[r], RAdd(RMul(slope, x[r]), intercept)),
                         RSub(y[r], RAdd(RMul(slope, x[r]), intercept)))])
        ssTot == SumOver(S, [r \in S |-> RMul(RSub(y[r], yMean), RSub(y[r], yMean))])
    IN  [slope |-> slope, intercept |-> intercept,
         r_squared |-> IF ssTot = R(0) THEN R(0) ELSE RSub(R(1), RDiv(ssRes, ssTot)),
         projected_value |-> MathRound(RAdd(RMul(slope, R(targetYear)), intercept))]

TlExpected ==
    IF Cardinality(TlYears) < 2 THEN ZeroTrend
    ELSE FitOn(TlFitted, tlArgs.metric, tlArgs.targetYear)

C30_TargetYearIgnored ==
    TlDone =>
        tlResult = computeTrendLine(SelectSeq(tlData, LAMBDA d : d.year < tlArgs.targetYear),
                                    tlArgs.metric, tlArgs.targetYear)

----------------------------------------------------------------------------
(* Properties of the calibration route (specification SpecCal).            *)

CalibrateAnswered == calResponse.route = "calibrate" /\ calResponse.status # 401

DaysInPeriod(v, i) ==
    {d \in Dates : /\ <<d, v>> \in DOMAIN shadowScores
                   /\ observations[i].period_start <= d
                   /\ d <= observations[i].period_end}
MatchedObservations(v) == {i \in DOMAIN observations : DaysInPeriod(v, i) # {}}
MeanShadowScore(v, i) ==
    RDiv(SumOver(DaysInPeriod(v, i), [d \in DaysInPeriod(v, i) |-> shadowScores[<<d, v>>]]),
         R(Cardinality(DaysInPeriod(v, i))))
ExpectedMae(v) ==
    RDiv(SumOver(MatchedObservations(v),
                 [i \in MatchedObservations(v) |->
                    MathAbs(RSub(MeanShadowScore(v, i), observations[i].observed_score))]),
         R(Cardinality(MatchedObservations(v))))

CalibrationDone == calResponse.route = "calibrate" /\ calResponse.status = 200

\* C10: the mae reported for a version is the mean, over exactly the
\* observations with at least one shadow score of that version dated within
\* [period_start, period_end] (ends included), of
\* |mean(composite_score of those shadow scores) - observed_score|.
C10_MaeOfMatchedObservations ==
    CalibrationDone =>
        \A r \in DOMAIN calResponse.results :
            LET res == calResponse.results[r] IN
            /\ res.observations_matched = Cardinality(MatchedObservations(res.version_number))
            /\ MatchedObservations(res.version_number) # {}
                  => res.mae = <<ExpectedMae(res.version_number)>>

\* Version 1 scored on all three days; one observation matches two scores
\* (the second on the last day of its period), one matches none.
C10_Witness ==
    /\ CalibrationDone
    /\ \A d \in Dates : <<d, 1>> \in DOMAIN shadowScores
    /\ \E i \in DOMAIN observations :
          /\ Cardinality(DaysInPeriod(1, i)) = 2
          /\ observations[i].period_end \in DaysInPeriod(1, i)
    /\ \E i \in DOMAIN observations : DaysInPeriod(1, i) = {}
    /\ calResponse.results[1].observations_matched = 2
    /\ calResponse.results[1].mae # <<>>
    /\ calResponse.results[1].mae # <<R(0)>>

\* C11: the recommendation names a version whose MAE is least among the
\* versions with a non-null MAE; a version with no matched observation has
\* mae null and is not recommended; when no version has a non-null MAE no
\* version is recommended.
C11_RecommendationIsBest ==
    CalibrationDone =>
        LET res == calResponse.results
            rec == calResponse.recommendation
        IN  /\ \A i \in DOMAIN res :
                  MatchedObservations(res[i].version_number) = {} => res[i].mae = <<>>
            /\ rec # <<>> =>
                  /\ \E i \in DOMAIN res : res[i] = rec[1]
                  /\ MatchedObservations(rec[1].version_number) # {}
                  /\ rec[1].mae # <<>>
                  /\ \A i \in DOMAIN res :
                        res[i].mae # <<>> => RLe(rec[1].mae[1], res[i].mae[1])
            /\ rec = <<>> <=> (\A i \in DOMAIN res : res[i].mae = <<>>)

\* Both versions have a MAE and the second, listed last, has the smaller one
\* and is recommended.
C11_Witness ==
    /\ CalibrationDone
    /\ \A i \in DOMAIN calResponse.results : calResponse.results[i].mae # <<>>
    /\ RLt(calResponse.results[2].mae[1], calResponse.results[1].mae[1])
    /\ calResponse.recommendation # <<>>
    /\ calResponse.recommendation[1].version_number = 2

\* A request body that carries the four required fields, a band of the
\* enumeration and a score that is a number, or a string spelling one, within
\* 0..100.
RequestValid(body) ==
    /\ body.period_start # <<>> /\ body.period_end # <<>>
    /\ body.observed_health # <<>> /\ body.observed_score # <<>>
    /\ body.observed_health[1] \in validBands
    /\ body.observed_score[1].type # "null"
    /\ body.observed_score[1].type = "string" => body.observed_score[1].text # ""
    /\ RLe(R(0), Number(body.observed_score[1]))
    /\ RLe(Number(body.observed_score[1]), R(100))

\* C24: every observation inserted through the observations POST route has
\* observed_health among the five bands and a numeric observed_score with
\* 0 <= observed_score <= 100; an authorized request that misses a required
\* field or violates these constraints gets a 400 response and inserts
\* nothing.
C24_ObservationValidated ==
    [][/\ \A i \in DOMAIN observations' :
             /\ observations'[i].observed_health \in validBands
             /\ RLe(R(0), observations'[i].observed_score)
             /\ RLe(observations'[i].observed_score, R(100))
       /\ \A h \in AuthHeaders, body \in ObservationBodies :
             (PostObservation(h, body) /\ ~Unauthorized(h) /\ ~RequestValid(body)) =>
                 /\ calResponse'.status = 400
                 /\ observations' = observations]_vars

\* C12: a calibration run changes no version's is_active, weights or
\* breakpoints; the only field it writes is backtest_mae, and only for the
\* versions whose computed MAE is non-null, which receive that MAE.
C12_CalibrationFrame ==
    [][\A v \in DOMAIN versions :
          /\ v \in DOMAIN versions'
          /\ versions'[v].is_active = versions[v].is_active
          /\ versions'[v].weights = versions[v].weights
          /\ versions'[v].breakpoints = versions[v].breakpoints
          /\ versions'[v].backtest_mae # versions[v].backtest_mae =>
                /\ calResponse'.route = "calibrate" /\ calResponse'.status = 200
                /\ \E i \in DOMAIN calResponse'.results :
                      /\ calResponse'.results[i].version_number = v
                      /\ calResponse'.results[i].mae # <<>>
                      /\ calResponse'.results[i].mae = versions'[v].backtest_mae]_vars

\* A calibration that computed a MAE for version 1 and none for version 2:
\* version 1 carries the new MAE, version 2 its earlier one, and version 1 is
\* still the active one.
C12_Witness ==
    /\ CalibrationDone
    /\ calResponse.results[1].mae # <<>>
    /\ calResponse.results[2].mae = <<>>
    /\ versions[1].backtest_mae = calResponse.results[1].mae
    /\ versions[2].backtest_mae = <<R(12)>>
    /\ versions[1].is_active /\ ~versions[2].is_active

----------------------------------------------------------------------------
(* Properties of the scheduled jobs and the store (specification SpecJobs). *)

KeysUnique(table, columns) ==
    /\ \A r \in DOMAIN table : table[r] = 1
    /\ \A r1, r2 \in DOMAIN table : (\A c \in columns : r1[c] = r2[c]) => r1 = r2

HasShadowRow(date, v) ==
    \E r \in DOMAIN shadowTable : r.score_date = date /\ r.methodology_version = v

ScorerWrote(p) == jobs[p].kind = "scorer" /\ jobs[p].pc \in {"shadow", "done"}

\* C18: whatever runs of runHealthScorer and runForecaster have executed, in
\* whatever interleaving and order of versions, the store holds at most one
\* health score per score_date, one shadow score per
\* (score_date, methodology_version) and one forecast per
\* (forecast_date, target_year); the shadow score of a version is the score
\* of the collected data under that version's weights and breakpoints, and
\* it is in the store once its run has written it, whatever other versions
\* were scored before or after.
C18_OneRowPerKey ==
    /\ KeysUnique(healthScores, {"score_date"})
    /\ KeysUnique(shadowTable, {"score_date", "methodology_version"})
    /\ KeysUnique(forecasts, {"forecast_date", "target_year"})
    /\ \A r \in DOMAIN shadowTable :
          r.composite_score
             = ShadowScores[snapshots, versions][r.methodology_version].composite_score
    /\ \A p \in Procs :
          ScorerWrote(p) =>
             /\ \E r \in DOMAIN healthScores : r.score_date = jobs[p].today
             /\ \A v \in DOMAIN versions \ jobs[p].pending : HasShadowRow(jobs[p].today, v)

\* Two scorer runs of the second day inside their loops, one having scored
\* version 2 first and the other version 1 first, after complete runs of both
\* jobs on the first day and a forecast on the second.
C18_Witness ==
    /\ today = 2
    /\ \A p \in Procs : jobs[p].pc = "shadow" /\ jobs[p].today = 2
    /\ jobs["cron"].pending = {1}
    /\ jobs["manual"].pending = {2}
    /\ BagCardinality(healthScores) = 2
    /\ BagCardinality(shadowTable) = 4
    /\ BagCardinality(forecasts) = 2
    /\ \E r1, r2 \in DOMAIN shadowTable :
          /\ r1.score_date = r2.score_date
          /\ r1.composite_score # r2.composite_score

CompleteYearRows == SelectSeq(snapshots.annual, LAMBDA r : r.year < CurrentYear)
LastCompleteYearColumn(column) ==
    IF CompleteYearRows = <<>> THEN R(0)
    ELSE numericOrZero(
            CompleteYearRows[CHOOSE i \in DOMAIN CompleteYearRows :
                \A j \in DOMAIN CompleteYearRows :
                    CompleteYearRows[j].year <= CompleteYearRows[i].year][column])

\* C20: runHealthScorer takes the year-over-year growth, attendance and
\* retention inputs from the annual snapshot of the last complete year (the
\* greatest year below the current year), never from the current year's row.
C20_LastCompleteYearInputs ==
    \A p \in Procs :
        jobs[p].kind = "scorer" =>
            /\ jobs[p].input.tournament_yoy_pct = LastCompleteYearColumn("tournament_yoy_pct")
            /\ jobs[p].input.entry_yoy_pct = LastCompleteYearColumn("entry_yoy_pct")
            /\ jobs[p].input.avg_attendance = LastCompleteYearColumn("avg_attendance")
            /\ jobs[p].input.retention_rate = LastCompleteYearColumn("retention_rate")

----------------------------------------------------------------------------
(* Properties of the cron routes (specification SpecCron).                 *)

IsPrefix(a, b) == Len(a) <= Len(b) /\ \A i \in 1..Len(a) : a[i] = b[i]

\* the handler of route r is serving, or has served, a request that passed
\* the header test
PassedHeaderTest(r) ==
    /\ handlers[r].pc # "idle"
    /\ handlers[r].response # "unauthorized"

CollectorThrew(r) ==
    /\ handlers[r].thrown # <<>>
    /\ handlers[r].thrown[1] \in {Collectors(r)[i] : i \in 1..3}

RunStatus(r) ==
    IF handlers[r].run = <<>> THEN "missing"
    ELSE collection_runs[handlers[r].run[1]].status

\* What C27 says of the request that route r serves.
CronLifecycle(r) ==
    LET h == handlers[r]
    IN  \* the record exists while and after the collectors run
        /\ h.run # <<>>
        /\ collection_runs[h.run[1]].run_type = r
        /\ h.pc \in {"collect", "update", "catch"} => RunStatus(r) = "running"
        \* the collectors are called in the order of the route, one at a time
        /\ IsPrefix(h.started, Collectors(r))
        \* nothing is called after a collector threw
        /\ CollectorThrew(r) => h.started[Len(h.started)] = h.thrown[1]
        \* the end of the request
        /\ h.pc = "done" =>
              IF CollectorThrew(r)
              THEN RunStatus(r) = "error" /\ h.response = "error"
              ELSE /\ RunStatus(r) = "success" /\ h.response = "success"
                   /\ h.started = Collectors(r)

\* C27: an authorized daily or weekly cron request inserts a collection_runs
\* record with status 'running' before any collector starts, runs its three
\* collectors one after another in the order of the route, runs no later
\* collector once one threw and then ends the record with status 'error',
\* ends it with 'success' otherwise, and answers with the JSON success or
\* error response without leaving the record in 'running'.
C27_CronRunLifecycle ==
    \A r \in CronRoutes : PassedHeaderTest(r) => CronLifecycle(r)

\* The same for requests whose collection_runs statements all succeeded.
CronLifecycleWhenStatementsSucceed ==
    \A r \in CronRoutes :
        (PassedHeaderTest(r) /\ ~handlers[r].dbFailed) => CronLifecycle(r)

\* A request that ran all three collectors and recorded 'success'.
CronSuccessReached ==
    \E r \in CronRoutes :
        /\ handlers[r].pc = "done" /\ handlers[r].response = "success"
        /\ ~handlers[r].dbFailed /\ RunStatus(r) = "success"

\* A request whose second collector threw and that recorded 'error'.
CronErrorReached ==
    \E r \in CronRoutes :
        /\ handlers[r].pc = "done" /\ handlers[r].response = "error"
        /\ ~handlers[r].dbFailed /\ Len(handlers[r].started) = 2
        /\ RunStatus(r) = "error"

\* the header C28 lets through: 'Bearer ' followed by a configured secret
HeaderOfConfiguredSecret(authHeader) ==
    /\ CRON_SECRET # NotConfigured
    /\ authHeader = <<"Bearer", CRON_SECRET[1]>>

\* C28: a request to a cron route, the observations route or the calibration
\* route whose Authorization header is not 'Bearer ' followed by the
\* configured CRON_SECRET is answered with 401, runs no collector and reads
\* or writes no table; with CRON_SECRET not configured that is every request.
C28_NoAccessWithoutSecret ==
    [][\A a \in AuthHeaders : ~HeaderOfConfiguredSecret(a) =>
          /\ \A r \in CronRoutes, o \in DbOutcomes :
                CronRequest(r, a, o) =>
                    /\ handlers'[r].response = "unauthorized"
                    /\ handlers'[r].started = <<>>
                    /\ UNCHANGED collection_runs
          /\ \A r \in CronRoutes :
                handlers'[r].authHeader = a => handlers'[r].pc \in {"idle", "done"}
          /\ \A body \in CronBodies :
                PostObservation(a, body) =>
                    calResponse'.status = 401 /\ UNCHANGED observations
          /\ Calibrate(a) => calResponse'.status = 401 /\ UNCHANGED versions]_vars

\* The same with CRON_SECRET configured.
NoAccessWithoutSecretWhenConfigured ==
    [][CRON_SECRET # NotConfigured => (\A a \in AuthHeaders : ~HeaderOfConfiguredSecret(a) =>
          /\ \A r \in CronRoutes, o \in DbOutcomes :
                CronRequest(r, a, o) =>
                    /\ handlers'[r].response = "unauthorized"
                    /\ handlers'[r].started = <<>>
                    /\ UNCHANGED collection_runs
          /\ \A r \in CronRoutes :
                handlers'[r].authHeader = a => handlers'[r].pc \in {"idle", "done"}
          /\ \A body \in CronBodies :
                PostObservation(a, body) =>
                    calResponse'.status = 401 /\ UNCHANGED observations
          /\ Calibrate(a) => calResponse'.status = 401 /\ UNCHANGED versions)]_vars

----------------------------------------------------------------------------
(* Shadow scores against the health score (specification SpecJobs).        *)

\* C29: a health score tagged methodology_version v and a shadow score for
\* version v on the same score_date, written by runHealthScorer from the
\* same tables, carry the same composite_score, whatever methodology_versions
\* holds, with no active version or several included.
C29_ShadowAgreesWithHealthScore ==
    \A h \in BagToSet(healthScores), s \in BagToSet(shadowTable) :
        (s.score_date = h.score_date /\ s.methodology_version = h.methodology_version)
            => s.composite_score = h.composite_score

\* The same while exactly one version is active.
ShadowAgreesWhenOneVersionActive ==
    activeMethodology(versions) # <<>> => C29_ShadowAgreesWithHealthScore

\* A run tagged with the single active version has written both rows.
ShadowAndHealthWritten ==
    /\ activeMethodology(versions) # <<>>
    /\ \E h \in BagToSet(healthScores), s \in BagToSet(shadowTable) :
          /\ s.score_date = h.score_date
          /\ s.methodology_version = h.methodology_version

====
